---- MODULE Spec2Model ----
(***************************************************************************)
(* A model of the kessel-sdk-go client SDK:                                *)
(*   - the OAuth2 client-credentials token cache (kessel/auth/auth.go),    *)
(*   - the generic gRPC client builder (kessel/inventory/internal/builder),*)
(*   - the ListWorkspaces streaming pager (kessel/rbac/v2),                *)
(*   - the error kinds of package errors (kessel/errors).                  *)
(* Each part has its own specification over the shared variables:          *)
(* SpecToken, SpecBuilder, SpecPager, SpecErrors.                          *)
(***************************************************************************)
EXTENDS Integers, Sequences, FiniteSets, TLC

VARIABLES
    \* ---- OAuth2ClientCredentials (one instance) and its callers ----
    cachedToken,    \* o.cachedToken: [AccessToken, ExpiresAt]
    tokenMutex,     \* o.tokenMutex: 0 when free, else the goroutine holding it
    now,            \* time.Now(), in seconds
    ticks,          \* how many times the clock advanced (bounded)
    pc,             \* per goroutine: the line of GetToken it is at
    force,          \* per goroutine: options.ForceRefresh of its current call
    seenAT,         \* per goroutine: the AccessToken read at line 132
    pend,           \* per goroutine: fields of a struct copy still to move
    val,            \* per goroutine: what refreshToken returned (token, err)
    result,         \* per goroutine: what its last GetToken returned
    inflight,       \* goroutines whose token-endpoint request is in flight
    callCount,      \* requests the token endpoint has received
    started,        \* GetToken calls started so far (bounded)
    \* ---- history ----
    resp,           \* per goroutine: the token endpoint's answer to its call
    seq,            \* the call running with no other call overlapping it:
                    \* its goroutine, and the cache, callCount and time at
                    \* its start
    uniform,        \* so far: no forced call, every answer was ok/TokA/3600
    \* ---- ClientBuilder[C] (one builder) ----
    bver,           \* which ClientBuilder source is modelled
    target,         \* b.target
    channelCredentials, \* b.channelCredentials
    perRPCCredentials,  \* b.perRPCCredentials
    insecure,       \* b.insecure
    calls,          \* history: the last configuration call made (empty before the first)
    built,          \* what the last Build() returned, and from what (until reconfigured)
    tlsConfig,      \* InventoryGRPCClientBuilder: b.tlsConfig
    oauth,          \* InventoryGRPCClientBuilder: enableOAuth, clientID, tokenURL
    client,         \* the client wrapper under observation
    connOpen,       \* its *grpc.ClientConn has not been closed
    released,       \* history: times the connection was released
    closeLog,       \* history: what each Close() of the client did
    \* ---- ListWorkspaces (one iterator) and its consumer ----
    lwPc,           \* where the iterator function is
    subject,        \* the caller's subject
    relation,       \* the caller's relation
    startToken,     \* history: the continuationToken argument of the call
    continuationToken,  \* the captured continuationToken parameter
    lastToken,      \* lastToken of the current stream
    requests,       \* the requests passed to StreamedListObjects, in order
    streamLog,      \* history: the responses Recv returned on this stream
    endTokens,      \* history: per ended stream, the token it ended with
    recvLog,        \* history: every response Recv returned, in order
    yielded,        \* the items the consumer was handed, in order
    streamOpen,     \* history: a started stream has not yet ended
    lwEnd,          \* history: why the sequence ended
    recvCalls,      \* history: per call, the Recv calls made on its stream
    consumerStopped,    \* history: a yield returned false
    ctx,            \* the context passed to ListWorkspaces
    \* ---- package errors (one error value passing through the layers) ----
    errv,           \* the error value: its Unwrap chain, outermost first
    madeBy,         \* history: the kind whose constructor made errv last
    given,          \* history: the cause that constructor was given
    lastOp,         \* history: the operation that produced errv
    \* ---- the inventory service clients (one client) and their RPCs ----
    rpcClient,      \* which client type sends the RPCs
    rpcConfig,      \* its configuration: EnableOauth, Insecure
    rpcTokenSource, \* its tokenSource / tokenClient field is set
    sent,           \* the requests that reached the inventory service
    rpcLog,         \* history: every RPC the caller made, and its outcome
    \* ---- fetchWorkspace (one call) and the RBAC server ----
    wsPc,           \* where fetchWorkspace is
    wsArgs,         \* its arguments: rbacBaseEndpoint, orgId, options.Auth
    workspaceType,  \* its workspaceType argument
    wsRequest,      \* the *http.Request it builds
    served,         \* the requests the RBAC endpoint received
    wsResponse,     \* what httpClient.Do returned
    wsResult,       \* what fetchWorkspace returned
    \* ---- auth.NewTokenSource (one call) and the issuer's discovery endpoint ----
    tsCfg,          \* the OAuthConfig: client id and secret, token URL, issuer URL
    tsPc,           \* where NewTokenSource is
    discoveries,    \* the discovery requests the issuer received
    tsResult,       \* what NewTokenSource returned
    \* ---- the gRPC configuration, the ClientBuilder made from it and its connection ----
    szPc,           \* where the construction is: start, config, builder, built
    szPath,         \* history: the constructor the construction started with
    szConfig,       \* the GRPCConfig / CompatibilityConfig: its endpoint and two message sizes
    szBuilder,      \* the ClientBuilder: endpoint, the two sizes, dialOptions
    szCalled,       \* history: per size, the value the last size option gave it
    szConn,         \* what the last Build returned: its error, the sizes in force
    \* ---- NewGRPCClient / NewHTTPClient (one constructor call) and what it built ----
    ctPc,           \* where the caller is: idle, returned, closed
    ctCfg,          \* the configuration: EnableOauth and the Oauth2 fields
    ctConn,         \* the connection or HTTP client the builder made: none, open, closed
    ctCloses,       \* history: Close() calls made on it, by whom
    ctResult,       \* what the constructor returned
    \* ---- Oauth2.DiscoverTokenEndpoint (one call) and the issuer ----
    dcPkg,          \* which package's Oauth2 is modelled
    dcCfg,          \* the Oauth2 value: IssuerURL, TokenURL
    dcPc,           \* where DiscoverTokenEndpoint is: idle, requesting, done
    dcRequests,     \* the URLs requested from the issuer
    dcBefore,       \* history: o.TokenURL when the call started
    dcOutcome,      \* history: what the request ended with
    dcResult,       \* what DiscoverTokenEndpoint returned
    \* ---- oauth2Auth.ConfigureRequest (one caller) and its credentials ----
    arPc,           \* where ConfigureRequest is: idle, getToken, done
    arCached,       \* the credentials' cachedToken
    arHeader,       \* the request's headers
    arBefore,       \* history: the headers the request came with
    arToken,        \* what GetToken returned to ConfigureRequest
    arResult,       \* what ConfigureRequest returned
    arCalls,        \* ConfigureRequest calls started so far (bounded)
    \* ---- the context passed to FetchRootWorkspace / FetchDefaultWorkspace ----
    wsCtx,          \* the caller's ctx: active or cancelled
    \* ---- the options given to WithDialOption / WithCallOption of a builder ----
    extraDialOptions, \* b.extraDialOptions (b.dialOptions of InventoryGRPCClientBuilder)
    extraCallOptions, \* b.extraCallOptions
    \* ---- a Build() of InventoryGRPCClientBuilder waiting for the issuer ----
    building        \* what that Build() read before it asked the issuer

tokenVars == <<cachedToken, tokenMutex, now, ticks, pc, force, seenAT, pend,
               val, result, inflight, callCount, started, resp, seq, uniform>>

builderVars == <<bver, target, channelCredentials, perRPCCredentials,
                 insecure, calls, built, tlsConfig, oauth, client, connOpen,
                 released, closeLog>>

\* The configuration of InventoryGRPCClientBuilder alone, and the client.
grpcCfg == <<tlsConfig, oauth>>
clientVars == <<client, connOpen, released, closeLog>>

pagerVars == <<lwPc, subject, relation, startToken, continuationToken,
               lastToken, requests, streamLog, endTokens, recvLog, yielded,
               streamOpen, lwEnd, recvCalls, consumerStopped, ctx>>

\* The history of the consumer and of the context.
pagerSeen == <<recvCalls, consumerStopped, ctx>>

errVars == <<errv, madeBy, given, lastOp>>

rpcVars == <<rpcClient, rpcConfig, rpcTokenSource, sent, rpcLog>>

wsVars == <<wsPc, wsArgs, workspaceType, wsRequest, served, wsResponse,
            wsResult>>

tsVars == <<tsCfg, tsPc, discoveries, tsResult>>

szVars == <<szPc, szPath, szConfig, szBuilder, szCalled, szConn>>

ctVars == <<ctPc, ctCfg, ctConn, ctCloses, ctResult>>

dcVars == <<dcPkg, dcCfg, dcPc, dcRequests, dcBefore, dcOutcome, dcResult>>

arVars == <<arPc, arCached, arHeader, arBefore, arToken, arResult, arCalls>>

wcVars == <<wsCtx>>

extraVars == <<extraDialOptions, extraCallOptions, building>>

vars == <<tokenVars, builderVars, pagerVars, errVars, rpcVars, wsVars, tsVars, szVars, ctVars, dcVars, arVars, wcVars, extraVars>>

nonTokenVars == <<builderVars, pagerVars, errVars, rpcVars, wsVars, tsVars, szVars, ctVars, dcVars, arVars, wcVars, extraVars>>
nonBuilderVars == <<tokenVars, pagerVars, errVars, rpcVars, wsVars, tsVars, szVars, ctVars, dcVars, arVars, wcVars, extraVars>>
nonPagerVars == <<tokenVars, builderVars, errVars, rpcVars, wsVars, tsVars, szVars, ctVars, dcVars, arVars, wcVars, extraVars>>
nonErrVars == <<tokenVars, builderVars, pagerVars, rpcVars, wsVars, tsVars, szVars, ctVars, dcVars, arVars, wcVars, extraVars>>
nonRpcVars == <<tokenVars, builderVars, pagerVars, errVars, wsVars, tsVars, szVars, ctVars, dcVars, arVars, wcVars, extraVars>>
nonWsVars == <<tokenVars, builderVars, pagerVars, errVars, rpcVars, tsVars, szVars, ctVars, dcVars, arVars, wcVars, extraVars>>
nonTsVars == <<tokenVars, builderVars, pagerVars, errVars, rpcVars, wsVars, szVars, ctVars, dcVars, arVars, wcVars, extraVars>>
nonSzVars == <<tokenVars, builderVars, pagerVars, errVars, rpcVars, wsVars, tsVars, ctVars, dcVars, arVars, wcVars, extraVars>>
nonCtVars == <<tokenVars, builderVars, pagerVars, errVars, rpcVars, wsVars, tsVars, szVars, dcVars, arVars, wcVars, extraVars>>
nonDcVars == <<tokenVars, builderVars, pagerVars, errVars, rpcVars, wsVars, tsVars, szVars, ctVars, arVars, wcVars, extraVars>>
nonArVars == <<tokenVars, builderVars, pagerVars, errVars, rpcVars, wsVars, tsVars, szVars, ctVars, dcVars, wcVars, extraVars>>
nonWcVars == <<tokenVars, builderVars, pagerVars, errVars, rpcVars, wsVars, tsVars, szVars, ctVars, dcVars, arVars, extraVars>>
nonExtraVars == <<tokenVars, builderVars, pagerVars, errVars, rpcVars, wsVars, tsVars, szVars, ctVars, dcVars, arVars, wcVars>>
nonExtraBuilderVars == <<tokenVars, pagerVars, errVars, rpcVars, wsVars, tsVars, szVars, ctVars, dcVars, arVars, wcVars>>

\* ------------------------------------------------------------------------
\* Bounds of the model
\* ------------------------------------------------------------------------
NumProcs == 2
MaxCalls == 3
MaxTicks == 1
MaxStreams == 3
MaxRecv == 3
MaxCloses == 3
\* The dial options, and the call options, a caller adds to one builder.
MaxExtraOptions == 1
\* Configuration calls another goroutine makes while a Build() waits for
\* the issuer.
MaxRaces == 1

Procs == 1..NumProcs

\* ------------------------------------------------------------------------
\* kessel/auth/auth.go
\* ------------------------------------------------------------------------
expirationWindow == 300
defaultExpiresIn == 3600

\* The fields of RefreshTokenResponse; a struct copy moves them one by one.
Fields == {"AccessToken", "ExpiresAt"}

\* RefreshTokenResponse{}: empty access token, zero time.
EmptyToken == [AccessToken |-> "", ExpiresAt |-> 0]

\* What the token endpoint may answer: access tokens and expires_in values
\* (0 stands for an absent or zero expires_in).
AccessTokens == {"TokA", "TokB"}
ExpiresInValues == {0, 100, 300, 3600}
\* By how much the clock may advance in one step.
TickSteps == {3300}

\* time.Time.Before
Before(t, u) == t < u

\* time.Time.Add with a duration in seconds
Add(t, d) == t + d

isTokenValidWideWindow(tok, t) ==
    IF tok.AccessToken = "" THEN FALSE
    ELSE Before(Add(t, defaultExpiresIn), tok.ExpiresAt)

isTokenValidInclusive(tok, t) ==
    IF tok.AccessToken = "" THEN FALSE
    ELSE Add(t, expirationWindow) <= tok.ExpiresAt

\* isTokenValid, on the token it read and the time it read
isTokenValid(tok, t) ==
    IF tok.AccessToken = "" THEN FALSE
    ELSE Before(Add(t, expirationWindow), tok.ExpiresAt)

refreshTokenNoDefault(answer, t) ==
    IF ~answer.ok
    THEN [tok |-> EmptyToken, err |-> "err"]
    ELSE [tok |-> [AccessToken |-> answer.token,
                   ExpiresAt |-> Add(t, answer.expiresIn)],
          err |-> "nil"]

\* refreshToken: the value it returns for an answer of the token endpoint.
\* answer = [ok |-> BOOLEAN, token |-> access_token, expiresIn |-> expires_in]
refreshToken(answer, t) ==
    IF ~answer.ok
    THEN [tok |-> EmptyToken, err |-> "err"]
    ELSE LET expiresIn == IF answer.expiresIn = 0 THEN defaultExpiresIn
                          ELSE answer.expiresIn
         IN [tok |-> [AccessToken |-> answer.token,
                      ExpiresAt |-> Add(t, expiresIn)],
             err |-> "nil"]

\* The answers of the token endpoint: a failure (transport error, non-2xx
\* status, cancelled context) or a token response.
Answers ==
    {[ok |-> FALSE, token |-> "", expiresIn |-> 0]} \cup
    [ok : {TRUE}, token : AccessTokens, expiresIn : ExpiresInValues]

NoAnswer == [ok |-> FALSE, token |-> "none", expiresIn |-> 0]
\* A call that has not returned: err is "nil" or "err" once it has.
NoResult == [tok |-> EmptyToken, err |-> "pending"]
NoSeq == [p |-> 0, tok |-> EmptyToken, count |-> 0, at |-> 0]

Active(p) == pc[p] # "idle"

\* b.perRPCCredentials == nil
NoCreds == [kind |-> "nil"]
\* Build() has not been called.
NotBuilt == [called |-> FALSE]
\* enableOAuth == false
NoOAuth == [enable |-> FALSE, clientID |-> "", clientSecret |-> "",
            tokenURL |-> "", issuerURL |-> <<>>]
\* No Build() of InventoryGRPCClientBuilder is waiting for the issuer.
NoBuilding == [waiting |-> FALSE]
\* No client wrapper exists.
NoClient == [kind |-> "none"]

InitToken ==
    /\ cachedToken = EmptyToken
    /\ tokenMutex = 0
    /\ now = 1
    /\ ticks = 0
    /\ pc = [p \in Procs |-> "idle"]
    /\ force = [p \in Procs |-> FALSE]
    /\ seenAT = [p \in Procs |-> ""]
    /\ pend = [p \in Procs |-> {}]
    /\ val = [p \in Procs |-> NoResult]
    /\ result = [p \in Procs |-> NoResult]
    /\ inflight = {}
    /\ callCount = 0
    /\ started = 0
    /\ resp = [p \in Procs |-> NoAnswer]
    /\ seq = NoSeq
    /\ uniform = TRUE

\* The clock advances.
Tick ==
    /\ ticks < MaxTicks
    /\ \E d \in TickSteps : now' = Add(now, d)
    /\ ticks' = ticks + 1
    /\ UNCHANGED <<cachedToken, tokenMutex, pc, force, seenAT, pend, val,
                   result, inflight, callCount, started, resp, seq, uniform>>
    /\ UNCHANGED nonTokenVars

GetTokenChecksFirst(p) ==
    /\ pc[p] = "idle"
    /\ started < MaxCalls
    /\ \E f \in BOOLEAN :
         /\ force' = [force EXCEPT ![p] = f]
         /\ pc' = [pc EXCEPT ![p] = "valid132"]
         /\ uniform' = (uniform /\ ~f)
    /\ started' = started + 1
    /\ result' = [result EXCEPT ![p] = NoResult]
    /\ seq' = IF \A q \in Procs : ~Active(q)
              THEN [p |-> p, tok |-> cachedToken, count |-> callCount,
                    at |-> now]
              ELSE NoSeq
    /\ UNCHANGED <<cachedToken, tokenMutex, now, ticks, seenAT, pend, val,
                   inflight, callCount, resp>>
    /\ UNCHANGED nonTokenVars

\* GetToken is called (lines 79-85): with ForceRefresh the validity check is
\* skipped and the caller goes for the lock.
GetToken(p) ==
    /\ pc[p] = "idle"
    /\ started < MaxCalls
    /\ \E f \in BOOLEAN :
         /\ force' = [force EXCEPT ![p] = f]
         /\ pc' = [pc EXCEPT ![p] = IF f THEN "lock89" ELSE "valid132"]
         /\ uniform' = (uniform /\ ~f)
    /\ started' = started + 1
    /\ result' = [result EXCEPT ![p] = NoResult]
    /\ seq' = IF \A q \in Procs : ~Active(q)
              THEN [p |-> p, tok |-> cachedToken, count |-> callCount,
                    at |-> now]
              ELSE NoSeq
    /\ UNCHANGED <<cachedToken, tokenMutex, now, ticks, seenAT, pend, val,
                   inflight, callCount, resp>>
    /\ UNCHANGED nonTokenVars

\* isTokenValid, line 132: reads cachedToken.AccessToken without the lock.
ReadAccessToken(p) ==
    /\ pc[p] = "valid132"
    /\ IF cachedToken.AccessToken = ""
       THEN /\ pc' = [pc EXCEPT ![p] = "lock89"]
            /\ UNCHANGED seenAT
       ELSE /\ pc' = [pc EXCEPT ![p] = "valid136"]
            /\ seenAT' = [seenAT EXCEPT ![p] = cachedToken.AccessToken]
    /\ UNCHANGED <<cachedToken, tokenMutex, now, ticks, force, pend, val,
                   result, inflight, callCount, started, resp, seq, uniform>>
    /\ UNCHANGED nonTokenVars

\* isTokenValid, line 136: reads cachedToken.ExpiresAt and the clock without
\* the lock; a valid token sends the caller to line 86, the copy of the cache.
ReadExpiresAt(p) ==
    /\ pc[p] = "valid136"
    /\ IF isTokenValid([AccessToken |-> seenAT[p],
                        ExpiresAt |-> cachedToken.ExpiresAt], now)
       THEN /\ pc' = [pc EXCEPT ![p] = "copy86"]
            /\ pend' = [pend EXCEPT ![p] = Fields]
       ELSE /\ pc' = [pc EXCEPT ![p] = "lock89"]
            /\ UNCHANGED pend
    /\ seenAT' = [seenAT EXCEPT ![p] = ""]
    /\ UNCHANGED <<cachedToken, tokenMutex, now, ticks, force, val, result,
                   inflight, callCount, started, resp, seq, uniform>>
    /\ UNCHANGED nonTokenVars

\* What a returning call leaves behind: its locals are gone.
Returned(p, tok, e) ==
    /\ result' = [result EXCEPT ![p] = [tok |-> tok, err |-> e]]
    /\ pc' = [pc EXCEPT ![p] = "idle"]
    /\ force' = [force EXCEPT ![p] = FALSE]
    /\ resp' = [resp EXCEPT ![p] = NoAnswer]
    /\ seq' = IF seq.p = p THEN NoSeq ELSE seq

CopyCachedWaits(p) ==
    /\ pc[p] = "copy86"
    /\ tokenMutex = 0
    /\ \E f \in pend[p] :
         /\ pend' = [pend EXCEPT ![p] = pend[p] \ {f}]
         /\ IF pend[p] = {f}
            THEN Returned(p, [result[p].tok EXCEPT ![f] = cachedToken[f]],
                          "nil")
            ELSE /\ result' = [result EXCEPT ![p].tok[f] = cachedToken[f]]
                 /\ UNCHANGED <<pc, force, resp, seq>>
    /\ UNCHANGED <<cachedToken, tokenMutex, now, ticks, seenAT, val,
                   inflight, callCount, started, uniform>>
    /\ UNCHANGED nonTokenVars

\* return o.cachedToken, nil (line 86): the struct is copied without the
\* lock, field by field in either order, so a concurrent writer may be seen
\* half-way.
CopyCached(p) ==
    /\ pc[p] = "copy86"
    /\ \E f \in pend[p] :
         /\ pend' = [pend EXCEPT ![p] = pend[p] \ {f}]
         /\ IF pend[p] = {f}
            THEN Returned(p, [result[p].tok EXCEPT ![f] = cachedToken[f]],
                          "nil")
            ELSE /\ result' = [result EXCEPT ![p].tok[f] = cachedToken[f]]
                 /\ UNCHANGED <<pc, force, resp, seq>>
    /\ UNCHANGED <<cachedToken, tokenMutex, now, ticks, seenAT, val,
                   inflight, callCount, started, uniform>>
    /\ UNCHANGED nonTokenVars

LockNoWait(p) ==
    /\ pc[p] = "lock89"
    /\ tokenMutex' = p
    /\ IF force[p]
       THEN /\ pc' = [pc EXCEPT ![p] = "clear93"]
            /\ pend' = [pend EXCEPT ![p] = Fields]
       ELSE /\ pc' = [pc EXCEPT ![p] = "call114"]
            /\ UNCHANGED pend
    /\ UNCHANGED <<cachedToken, now, ticks, force, seenAT, val, result,
                   inflight, callCount, started, resp, seq, uniform>>
    /\ UNCHANGED nonTokenVars

\* o.tokenMutex.Lock() (line 89): waits until the mutex is free.
Lock(p) ==
    /\ pc[p] = "lock89"
    /\ tokenMutex = 0
    /\ tokenMutex' = p
    /\ IF force[p]
       THEN /\ pc' = [pc EXCEPT ![p] = "clear93"]
            /\ pend' = [pend EXCEPT ![p] = Fields]
       ELSE /\ pc' = [pc EXCEPT ![p] = "call114"]
            /\ UNCHANGED pend
    /\ UNCHANGED <<cachedToken, now, ticks, force, seenAT, val, result,
                   inflight, callCount, started, resp, seq, uniform>>
    /\ UNCHANGED nonTokenVars

\* o.cachedToken = RefreshTokenResponse{} (lines 92-94), field by field.
ClearCache(p) ==
    /\ pc[p] = "clear93"
    /\ \E f \in pend[p] :
         /\ cachedToken' = [cachedToken EXCEPT ![f] = EmptyToken[f]]
         /\ pend' = [pend EXCEPT ![p] = pend[p] \ {f}]
         /\ pc' = [pc EXCEPT ![p] = IF pend[p] = {f} THEN "call114"
                                    ELSE "clear93"]
    /\ UNCHANGED <<tokenMutex, now, ticks, force, seenAT, val, result,
                   inflight, callCount, started, resp, seq, uniform>>
    /\ UNCHANGED nonTokenVars

CallTokenEndpointTwice(p) ==
    /\ pc[p] = "call114"
    /\ inflight' = inflight \cup {p}
    /\ callCount' = callCount + 2
    /\ pc' = [pc EXCEPT ![p] = "wait114"]
    /\ UNCHANGED <<cachedToken, tokenMutex, now, ticks, force, seenAT, pend,
                   val, result, started, resp, seq, uniform>>
    /\ UNCHANGED nonTokenVars

\* refreshToken sends the request to the token endpoint (line 114).
CallTokenEndpoint(p) ==
    /\ pc[p] = "call114"
    /\ inflight' = inflight \cup {p}
    /\ callCount' = callCount + 1
    /\ pc' = [pc EXCEPT ![p] = "wait114"]
    /\ UNCHANGED <<cachedToken, tokenMutex, now, ticks, force, seenAT, pend,
                   val, result, started, resp, seq, uniform>>
    /\ UNCHANGED nonTokenVars

\* The token endpoint answers (or the transport fails, or the context is
\* cancelled): refreshToken returns (lines 114-128).
TokenEndpointAnswers(p) ==
    /\ pc[p] = "wait114"
    /\ \E a \in Answers :
         /\ val' = [val EXCEPT ![p] = refreshToken(a, now)]
         /\ resp' = [resp EXCEPT ![p] = a]
         /\ uniform' = (uniform /\ a.ok /\ a.token = "TokA"
                                /\ a.expiresIn = defaultExpiresIn)
    /\ inflight' = inflight \ {p}
    /\ pend' = [pend EXCEPT ![p] = Fields]
    /\ pc' = [pc EXCEPT ![p] = "store97"]
    /\ UNCHANGED <<cachedToken, tokenMutex, now, ticks, force, seenAT,
                   result, callCount, started, seq>>
    /\ UNCHANGED nonTokenVars

\* o.cachedToken, err = o.refreshToken(...) (line 97): the returned struct is
\* stored field by field, whether or not the refresh failed.
StoreToken(p) ==
    /\ pc[p] = "store97"
    /\ \E f \in pend[p] :
         /\ cachedToken' = [cachedToken EXCEPT ![f] = val[p].tok[f]]
         /\ pend' = [pend EXCEPT ![p] = pend[p] \ {f}]
         /\ pc' = [pc EXCEPT ![p] = IF pend[p] = {f} THEN "ret99"
                                    ELSE "store97"]
    /\ UNCHANGED <<tokenMutex, now, ticks, force, seenAT, val, result,
                   inflight, callCount, started, resp, seq, uniform>>
    /\ UNCHANGED nonTokenVars

\* A GetToken that unlocks by hand on the success path only, with no defer.
ReturnRefreshedKeepsLockOnError(p) ==
    /\ pc[p] = "ret99"
    /\ Returned(p, cachedToken, val[p].err)
    /\ tokenMutex' = IF val[p].err = "err" THEN tokenMutex ELSE 0
    /\ val' = [val EXCEPT ![p] = NoResult]
    /\ UNCHANGED <<cachedToken, now, ticks, seenAT, pend, inflight,
                   callCount, started, uniform>>
    /\ UNCHANGED nonTokenVars

\* return o.cachedToken, err (line 99) and the deferred Unlock (line 90).
ReturnRefreshed(p) ==
    /\ pc[p] = "ret99"
    /\ Returned(p, cachedToken, val[p].err)
    /\ tokenMutex' = 0
    /\ val' = [val EXCEPT ![p] = NoResult]
    /\ UNCHANGED <<cachedToken, now, ticks, seenAT, pend, inflight,
                   callCount, started, uniform>>
    /\ UNCHANGED nonTokenVars

NextToken ==
    \/ Tick
    \/ \E p \in Procs : GetToken(p)
    \/ \E p \in Procs : ReadAccessToken(p)
    \/ \E p \in Procs : ReadExpiresAt(p)
    \/ \E p \in Procs : CopyCached(p)
    \/ \E p \in Procs : Lock(p)
    \/ \E p \in Procs : ClearCache(p)
    \/ \E p \in Procs : CallTokenEndpoint(p)
    \/ \E p \in Procs : TokenEndpointAnswers(p)
    \/ \E p \in Procs : StoreToken(p)
    \/ \E p \in Procs : ReturnRefreshed(p)

\* ------------------------------------------------------------------------
\* URLs and OIDC discovery, as the builders and the token source use them.
\* A URL is a sequence of parts; the part "<DEL>" stands for a control
\* character (0x7f).
\* ------------------------------------------------------------------------
\* url.Parse rejects a URL that holds a control character.
ParseFails(u) == \E i \in 1..Len(u) : u[i] = "<DEL>"

\* What the discovery endpoint may do: the transport fails, or it answers
\* with a status and a body that is not JSON or a document whose
\* token_endpoint is absent, cannot be parsed as a URL, or is a URL.
DiscoveryStatuses == {200, 404, 500}
DiscoveryDocs == {[kind |-> "invalid json"],
                  [kind |-> "json", TokenEndpoint |-> <<>>],
                  [kind |-> "json", TokenEndpoint |-> <<"%zz">>],
                  [kind |-> "json",
                   TokenEndpoint |-> <<"https://idp.example.com/token">>]}
DiscoveryOutcomes ==
    {[transport |-> FALSE]} \cup
    [transport : {TRUE}, StatusCode : DiscoveryStatuses, doc : DiscoveryDocs]

\* strings.TrimSuffix(s, "/")
TrimSuffix(s) ==
    IF s # <<>> /\ s[Len(s)] = "/" THEN SubSeq(s, 1, Len(s) - 1) ELSE s

\* The discovery URL of an issuer.
discoveryURL(issuerURL) ==
    TrimSuffix(issuerURL) \o <<"/.well-known/openid-configuration">>

\* http.NewRequestWithContext fails for a discovery URL that does not parse:
\* discovery returns its error and nothing is sent.
discoveryRequestFails(issuerURL) == ParseFails(discoveryURL(issuerURL))

\* discoverTokenEndpoint, from the answer on: the token endpoint or an error.
discoverTokenEndpoint(o) ==
    IF ~o.transport THEN [err |-> TRUE, url |-> <<>>]
    ELSE IF o.StatusCode # 200 THEN [err |-> TRUE, url |-> <<>>]
    ELSE IF o.doc.kind # "json" THEN [err |-> TRUE, url |-> <<>>]
    ELSE IF o.doc.TokenEndpoint = <<>> THEN [err |-> TRUE, url |-> <<>>]
    ELSE IF o.doc.TokenEndpoint = <<"%zz">> THEN [err |-> TRUE, url |-> <<>>]
    ELSE [err |-> FALSE, url |-> o.doc.TokenEndpoint]

\* The call options a list of dial options carries, in order.
RECURSIVE CallOptionsOf(_)
CallOptionsOf(dialOptions) ==
    IF dialOptions = <<>> THEN <<>>
    ELSE Head(dialOptions).call \o CallOptionsOf(Tail(dialOptions))

\* ------------------------------------------------------------------------
\* kessel/inventory/internal/builder/builder.go   (bver = "internal")
\* and the ClientBuilder[C] of package inventory  (bver = "inventory")
\* ------------------------------------------------------------------------
BuilderSources == {"internal", "inventory", "v1beta2", "grpc"}

\* The two ClientBuilder sources whose configuration calls read the same:
\* package inventory and package v1beta2.
InvSources == {"inventory", "v1beta2"}

\* NewClientBuilder's target argument: empty, a host and port, and a target
\* that grpc cannot parse (an invalid URL escape).
Targets == {"", "localhost:9000", "%zz"}

\* The channelCredentials argument: nil, TLS credentials of the caller, or
\* insecure.NewCredentials() passed by the caller.
ChannelArgs == {"nil", "tls-custom", "insecure"}

\* The callCredentials argument of Authenticated: nil, or credentials whose
\* RequireTransportSecurity() answers requireTS.
CallCredsArgs == {NoCreds} \cup [kind : {"call"}, requireTS : BOOLEAN]

\* The oAuth2ClientCredentials argument: nil or a credentials object.
OAuth2Args == {"nil", "oauth2-creds"}

\* RequireTransportSecurity() of per-RPC credentials: oauth2PerRPCCreds
\* answers !o.insecure; the caller's own credentials answer as they like.
RequireTransportSecurity(c) ==
    IF c.kind = "oauth2" THEN ~c.insecure ELSE c.requireTS

\* built holds what the last Build() returned for as long as the builder is
\* as that Build() read it: a configuration call starts afresh.
Reconfigured == built' = NotBuilt

\* The configuration call is recorded (history only): the last call made
\* is kept, whatever the number of calls before it.
Called(op, ch) == calls' = <<[op |-> op, ch |-> ch]>>

\* NewClientBuilder(target, newStub)
InitBuilder ==
    /\ bver \in BuilderSources
    /\ target \in (IF bver = "grpc" THEN {""} ELSE Targets)
    /\ channelCredentials = "tls"
    /\ perRPCCredentials = NoCreds
    /\ insecure = FALSE
    /\ calls = <<>>
    /\ built = NotBuilt
    /\ tlsConfig = "nil"
    /\ oauth = NoOAuth
    /\ client = NoClient
    /\ connOpen = FALSE
    /\ released = 0
    /\ closeLog = <<>>

\* setChannelCredentialsOrDefault
setChannelCredentialsOrDefault(ch) ==
    /\ insecure' = FALSE
    /\ channelCredentials' = IF ch # "nil" THEN ch ELSE "tls"

\* OAuth2ClientAuthenticated: b.insecure is read after it was reset.
OAuth2ClientAuthenticated(o, ch) ==
    /\ bver = "internal"
    /\ Called("OAuth2ClientAuthenticated", ch)
    /\ setChannelCredentialsOrDefault(ch)
    /\ perRPCCredentials' =
         IF o # "nil" THEN [kind |-> "oauth2", insecure |-> insecure']
         ELSE perRPCCredentials
    /\ Reconfigured
    /\ UNCHANGED <<bver, target>>
    /\ UNCHANGED <<grpcCfg, clientVars>>
    /\ UNCHANGED nonBuilderVars

Authenticated(cc, ch) ==
    /\ bver = "internal"
    /\ Called("Authenticated", ch)
    /\ perRPCCredentials' = cc
    /\ setChannelCredentialsOrDefault(ch)
    /\ Reconfigured
    /\ UNCHANGED <<bver, target>>
    /\ UNCHANGED <<grpcCfg, clientVars>>
    /\ UNCHANGED nonBuilderVars

Unauthenticated(ch) ==
    /\ bver = "internal"
    /\ Called("Unauthenticated", ch)
    /\ perRPCCredentials' = NoCreds
    /\ setChannelCredentialsOrDefault(ch)
    /\ Reconfigured
    /\ UNCHANGED <<bver, target>>
    /\ UNCHANGED <<grpcCfg, clientVars>>
    /\ UNCHANGED nonBuilderVars

Insecure ==
    /\ bver = "internal"
    /\ Called("Insecure", "insecure")
    /\ insecure' = TRUE
    /\ channelCredentials' = "insecure"
    /\ perRPCCredentials' = NoCreds
    /\ Reconfigured
    /\ UNCHANGED <<bver, target>>
    /\ UNCHANGED <<grpcCfg, clientVars>>
    /\ UNCHANGED nonBuilderVars

\* A nil *grpc.ClientConn.
NilConn == [kind |-> "nil"]

\* The dial options and the call option of grpc that carry credentials.
WithTransportCredentials(t) ==
    [name |-> "WithTransportCredentials", transport |-> t,
     creds |-> NoCreds, call |-> <<>>]

WithPerRPCCredentials(c) ==
    [name |-> "WithPerRPCCredentials", transport |-> "none",
     creds |-> c, call |-> <<>>]

WithDefaultCallOptions(callOpts) ==
    [name |-> "WithDefaultCallOptions", transport |-> "none",
     creds |-> NoCreds, call |-> callOpts]

PerRPCCredentials(c) == [name |-> "PerRPCCredentials", creds |-> c]

\* The dial options the callers pass to WithDialOption, and the call
\* options they pass to WithCallOption.
DialOptionArgs ==
    {WithTransportCredentials("insecure"),
     WithPerRPCCredentials([kind |-> "call", requireTS |-> TRUE])}
CallOptionArgs == {PerRPCCredentials([kind |-> "call", requireTS |-> TRUE])}

\* grpc applies the dial options in order: the last transport credentials
\* are the ones in force.
RECURSIVE TransportOf(_)
TransportOf(dialOpts) ==
    IF dialOpts = <<>> THEN "none"
    ELSE IF dialOpts[Len(dialOpts)].name = "WithTransportCredentials"
    THEN dialOpts[Len(dialOpts)].transport
    ELSE TransportOf(SubSeq(dialOpts, 1, Len(dialOpts) - 1))

\* The per-RPC credentials of the default call options: the last
\* PerRPCCredentials option is the one in force.
RECURSIVE CallCredsOf(_)
CallCredsOf(callOpts) ==
    IF callOpts = <<>> THEN NoCreds
    ELSE IF callOpts[Len(callOpts)].name = "PerRPCCredentials"
    THEN callOpts[Len(callOpts)].creds
    ELSE CallCredsOf(SubSeq(callOpts, 1, Len(callOpts) - 1))

\* The per-RPC credentials given as dial options: all of them are kept.
RECURSIVE DialCredsOf(_)
DialCredsOf(dialOpts) ==
    IF dialOpts = <<>> THEN <<>>
    ELSE (IF Head(dialOpts).name = "WithPerRPCCredentials"
          THEN <<Head(dialOpts).creds>> ELSE <<>>)
         \o DialCredsOf(Tail(dialOpts))

\* grpc.NewClient(b.target, dialOpts...): creation fails for a target it
\* cannot parse, and for per-RPC credentials given as a dial option that
\* require transport security on an insecure transport.  Credentials that
\* travel as a default call option are not checked against the transport
\* when the client is created.
NewClient(t, dialOpts) ==
    IF t = "%zz" THEN [err |-> TRUE, conn |-> NilConn, dialed |-> TRUE]
    ELSE IF /\ TransportOf(dialOpts) = "insecure"
            /\ \E i \in 1..Len(dialOpts) :
                  /\ dialOpts[i].name = "WithPerRPCCredentials"
                  /\ RequireTransportSecurity(dialOpts[i].creds)
    THEN [err |-> TRUE, conn |-> NilConn, dialed |-> TRUE]
    ELSE [err |-> FALSE, dialed |-> TRUE,
          conn |-> [target |-> t, transport |-> TransportOf(dialOpts),
                    creds |-> CallCredsOf(CallOptionsOf(dialOpts)),
                    perRPC |-> DialCredsOf(dialOpts)]]

\* Build() returns its error before it reaches grpc.NewClient.
Rejected == [err |-> TRUE, conn |-> NilConn, dialed |-> FALSE]

\* What Build() returns (stub, conn, err), with the configuration it read:
\* the transport and the per-call credentials its dial options stand for,
\* and the caller's own dial and call options.
BuildReturns(r, stub, dialOpts) ==
    [called |-> TRUE, err |-> r.err, conn |-> r.conn, stub |-> stub,
     dialed |-> r.dialed, tokenSource |-> FALSE,
     transport |-> TransportOf(dialOpts),
     creds |-> CallCredsOf(CallOptionsOf(dialOpts)),
     target |-> target, calls |-> calls,
     dialOptions |-> extraDialOptions, callOptions |-> extraCallOptions]

\* The dial options of builder.go: the transport credentials, and the
\* per-RPC credentials (when set) as the one default call option.
InternalDialOpts ==
    <<WithTransportCredentials(channelCredentials)>>
    \o (IF perRPCCredentials # NoCreds
        THEN <<WithDefaultCallOptions(<<PerRPCCredentials(perRPCCredentials)>>)>>
        ELSE <<>>)

BuildInternalNoTargetCheck ==
    LET r == NewClient(target, InternalDialOpts)
    IN BuildReturns(r, ~r.err, InternalDialOpts)

\* Build() of builder.go: only the empty target is rejected.
BuildInternal ==
    IF target = ""
    THEN BuildReturns(Rejected, FALSE, InternalDialOpts)
    ELSE LET r == NewClient(target, InternalDialOpts)
         IN BuildReturns(r, ~r.err, InternalDialOpts)

Build ==
    /\ bver = "internal"
    /\ built' = BuildInternal
    /\ UNCHANGED <<bver, target, channelCredentials, perRPCCredentials,
                   insecure, calls>>
    /\ UNCHANGED <<grpcCfg, clientVars>>
    /\ UNCHANGED nonBuilderVars

\* ---- package inventory: a nil channelCredentials argument keeps what the
\* builder has, and the insecure flag is only ever set.
InvSetChannelCredentials(ch) ==
    /\ channelCredentials' = IF ch # "nil" THEN ch ELSE channelCredentials
    /\ UNCHANGED insecure

InvOAuth2ClientAuthenticated(o, ch) ==
    /\ bver \in InvSources
    /\ Called("OAuth2ClientAuthenticated", ch)
    /\ InvSetChannelCredentials(ch)
    /\ perRPCCredentials' =
         IF o # "nil" THEN [kind |-> "oauth2", insecure |-> insecure]
         ELSE perRPCCredentials
    /\ Reconfigured
    /\ UNCHANGED <<bver, target>>
    /\ UNCHANGED <<grpcCfg, clientVars>>
    /\ UNCHANGED nonBuilderVars

InvAuthenticated(cc, ch) ==
    /\ bver \in InvSources
    /\ Called("Authenticated", ch)
    /\ perRPCCredentials' = cc
    /\ InvSetChannelCredentials(ch)
    /\ Reconfigured
    /\ UNCHANGED <<bver, target>>
    /\ UNCHANGED <<grpcCfg, clientVars>>
    /\ UNCHANGED nonBuilderVars

InvUnauthenticated(ch) ==
    /\ bver \in InvSources
    /\ Called("Unauthenticated", ch)
    /\ perRPCCredentials' = NoCreds
    /\ InvSetChannelCredentials(ch)
    /\ Reconfigured
    /\ UNCHANGED <<bver, target>>
    /\ UNCHANGED <<grpcCfg, clientVars>>
    /\ UNCHANGED nonBuilderVars

InvInsecure ==
    /\ bver \in InvSources
    /\ Called("Insecure", "insecure")
    /\ insecure' = TRUE
    /\ channelCredentials' = "insecure"
    /\ perRPCCredentials' = NoCreds
    /\ Reconfigured
    /\ UNCHANGED <<bver, target>>
    /\ UNCHANGED <<grpcCfg, clientVars>>
    /\ UNCHANGED nonBuilderVars

\* b.WithDialOption(opt): b.extraDialOptions = append(b.extraDialOptions, opt)
InvWithDialOption(opt) ==
    /\ bver \in InvSources
    /\ Len(extraDialOptions) < MaxExtraOptions
    /\ extraDialOptions' = Append(extraDialOptions, opt)
    /\ Reconfigured
    /\ UNCHANGED <<extraCallOptions, building>>
    /\ UNCHANGED <<bver, target, channelCredentials, perRPCCredentials,
                   insecure, calls, grpcCfg, clientVars>>
    /\ UNCHANGED <<tokenVars, pagerVars, errVars, rpcVars, wsVars, tsVars,
                   szVars, ctVars, dcVars, arVars, wcVars>>

\* b.WithCallOption(opt): b.extraCallOptions = append(b.extraCallOptions, opt)
InvWithCallOption(opt) ==
    /\ bver \in InvSources
    /\ Len(extraCallOptions) < MaxExtraOptions
    /\ extraCallOptions' = Append(extraCallOptions, opt)
    /\ Reconfigured
    /\ UNCHANGED <<extraDialOptions, building>>
    /\ UNCHANGED <<bver, target, channelCredentials, perRPCCredentials,
                   insecure, calls, grpcCfg, clientVars>>
    /\ UNCHANGED <<tokenVars, pagerVars, errVars, rpcVars, wsVars, tsVars,
                   szVars, ctVars, dcVars, arVars, wcVars>>

\* The dial options of Build() in packages inventory and v1beta2: the
\* builder's transport credentials; the default call options, made of the
\* builder's per-RPC credentials (when set) and then the caller's call
\* options; and then the caller's dial options, which come last.
InvDialOpts ==
    <<WithTransportCredentials(channelCredentials),
      WithDefaultCallOptions(
          (IF perRPCCredentials # NoCreds
           THEN <<PerRPCCredentials(perRPCCredentials)>> ELSE <<>>)
          \o extraCallOptions)>>
    \o extraDialOptions

\* Build() of package inventory: the empty target is rejected, and so are
\* per-RPC credentials on a builder whose insecure flag is set.
InvBuildReturns ==
    IF target = ""
    THEN BuildReturns(Rejected, FALSE, InvDialOpts)
    ELSE IF insecure /\ perRPCCredentials # NoCreds
    THEN BuildReturns(Rejected, FALSE, InvDialOpts)
    ELSE LET r == NewClient(target, InvDialOpts)
         IN BuildReturns(r, ~r.err, InvDialOpts)

InvBuild ==
    /\ bver = "inventory"
    /\ built' = InvBuildReturns
    /\ UNCHANGED <<bver, target, channelCredentials, perRPCCredentials,
                   insecure, calls>>
    /\ UNCHANGED <<grpcCfg, clientVars>>
    /\ UNCHANGED nonBuilderVars

\* ---- package v1beta2 (ClientBuilder returning *InventoryClient): Build()
\* rejects the empty target only and wraps the connection in a client.
V1BuildReturns ==
    IF target = ""
    THEN BuildReturns(Rejected, FALSE, InvDialOpts)
    ELSE LET r == NewClient(target, InvDialOpts)
         IN BuildReturns(r, ~r.err, InvDialOpts)

\* The first client a Build() returns is the one observed from then on.
ClientReturned(kind, b) ==
    IF ~b.err /\ client = NoClient
    THEN /\ client' = [kind |-> kind, conn |-> b.conn]
         /\ connOpen' = TRUE
         /\ UNCHANGED <<released, closeLog>>
    ELSE UNCHANGED clientVars

V1Build ==
    /\ bver = "v1beta2"
    /\ built' = V1BuildReturns
    /\ ClientReturned("InventoryClient", built')
    /\ UNCHANGED <<bver, target, channelCredentials, perRPCCredentials,
                   insecure, calls, grpcCfg>>
    /\ UNCHANGED nonBuilderVars

\* ---- InventoryGRPCClientBuilder (grpc_client_builder.go); the options of
\* package config (WithGRPCInsecure, WithGRPCTLSConfig) set the same two
\* fields the same way.
Endpoints == {"", "localhost:9000", "%zz"}
TLSConfigs == {"nil", "custom"}
\* The clientID and clientSecret arguments, the tokenURL argument and the
\* issuerURL argument (the second issuer does not parse as a URL).
ClientLogins == {[id |-> "client-id", secret |-> "secret"],
                 [id |-> "", secret |-> "secret"],
                 [id |-> "client-id", secret |-> ""]}
TokenURLs == {"", "https://sso/token"}
IssuerURLs == {<<"https://auth.example.com">>,
               <<"https://auth.example.com", "<DEL>">>}

\* A configuration call made while a Build() waits for the issuer is one
\* of another goroutine (counted, at most MaxRaces of them).
Raced ==
    /\ building.waiting => building.raced < MaxRaces
    /\ building' = IF building.waiting
                   THEN [building EXCEPT !.raced = @ + 1]
                   ELSE building

WithEndpoint(e) ==
    /\ bver = "grpc"
    /\ target' = e
    /\ Reconfigured
    /\ UNCHANGED <<bver, channelCredentials, perRPCCredentials, insecure,
                   calls, grpcCfg, clientVars>>
    /\ Raced
    /\ UNCHANGED <<extraDialOptions, extraCallOptions>>
    /\ UNCHANGED nonExtraBuilderVars

WithInsecure(flag) ==
    /\ bver = "grpc"
    /\ Called("WithInsecure", IF flag THEN "insecure" ELSE "nil")
    /\ insecure' = flag
    /\ Reconfigured
    /\ UNCHANGED <<bver, target, channelCredentials, perRPCCredentials,
                   grpcCfg, clientVars>>
    /\ Raced
    /\ UNCHANGED <<extraDialOptions, extraCallOptions>>
    /\ UNCHANGED nonExtraBuilderVars

WithTLSConfig(cfg) ==
    /\ bver = "grpc"
    /\ Called("WithTLSConfig", IF cfg = "nil" THEN "nil" ELSE "tls-custom")
    /\ tlsConfig' = cfg
    /\ insecure' = FALSE
    /\ Reconfigured
    /\ UNCHANGED <<bver, target, channelCredentials, perRPCCredentials,
                   oauth, clientVars>>
    /\ Raced
    /\ UNCHANGED <<extraDialOptions, extraCallOptions>>
    /\ UNCHANGED nonExtraBuilderVars

WithOAuth2(id, secret, url) ==
    /\ bver = "grpc"
    /\ oauth' = [oauth EXCEPT !.enable = TRUE, !.clientID = id,
                              !.clientSecret = secret, !.tokenURL = url]
    /\ Reconfigured
    /\ UNCHANGED <<bver, target, channelCredentials, perRPCCredentials,
                   insecure, calls, tlsConfig, clientVars>>
    /\ Raced
    /\ UNCHANGED <<extraDialOptions, extraCallOptions>>
    /\ UNCHANGED nonExtraBuilderVars

WithOAuth2Issuer(id, secret, url) ==
    /\ bver = "grpc"
    /\ oauth' = [oauth EXCEPT !.enable = TRUE, !.clientID = id,
                              !.clientSecret = secret, !.issuerURL = url]
    /\ Reconfigured
    /\ UNCHANGED <<bver, target, channelCredentials, perRPCCredentials,
                   insecure, calls, tlsConfig, clientVars>>
    /\ Raced
    /\ UNCHANGED <<extraDialOptions, extraCallOptions>>
    /\ UNCHANGED nonExtraBuilderVars

\* b.WithDialOption(opt): b.dialOptions = append(b.dialOptions, opt)
WithDialOption(opt) ==
    /\ bver = "grpc"
    /\ Len(extraDialOptions) < MaxExtraOptions
    /\ extraDialOptions' = Append(extraDialOptions, opt)
    /\ Reconfigured
    /\ Raced
    /\ UNCHANGED extraCallOptions
    /\ UNCHANGED <<bver, target, channelCredentials, perRPCCredentials,
                   insecure, calls, grpcCfg, clientVars>>
    /\ UNCHANGED <<tokenVars, pagerVars, errVars, rpcVars, wsVars, tsVars,
                   szVars, ctVars, dcVars, arVars, wcVars>>

\* auth.NewTokenSource(cfg) asks the issuer for the token endpoint when the
\* client id and secret are set, no token URL is and an issuer URL is.
NeedsDiscovery(o) ==
    /\ o.clientID # "" /\ o.clientSecret # ""
    /\ o.tokenURL = ""
    /\ o.issuerURL # <<>>

\* auth.NewTokenSource(cfg) fails: the client id and secret are required;
\* then a token URL is taken as it is; else an issuer URL is asked for the
\* token endpoint (d is what its discovery endpoint does) and a failed
\* discovery fails the call; with neither URL it fails.
NewTokenSourceFails(o, d) ==
    IF o.clientID = "" \/ o.clientSecret = "" THEN TRUE
    ELSE IF o.tokenURL # "" THEN FALSE
    ELSE IF o.issuerURL # <<>>
    THEN discoveryRequestFails(o.issuerURL) \/ discoverTokenEndpoint(d).err
    ELSE TRUE

\* The transport credentials Build() appends (after the custom options).
GrpcTransport ==
    IF insecure THEN "insecure"
    ELSE IF tlsConfig # "nil" THEN "tls-custom" ELSE "tls"

\* The dial options of InventoryGRPCClientBuilder.Build(): the caller's
\* dial options come first and the builder's transport credentials after
\* them.
GrpcDialOpts ==
    extraDialOptions
    \o <<WithTransportCredentials(GrpcTransport), WithDefaultCallOptions(<<>>)>>

\* What Build() reads of the builder before it makes the token source
\* (lines 107-155): the endpoint it tests, the dial options it assembles
\* and the OAuth configuration it copies into cfg.
GrpcRead ==
    [target |-> target, calls |-> calls, oauth |-> oauth,
     dialOptions |-> extraDialOptions, opts |-> GrpcDialOpts]

\* What Build() returns, having read rd before the token source was made:
\* the client's insecure field is b.insecure as it is when Build() returns
\* (line 173).
GrpcReturns(r, tokenSource, rd) ==
    [called |-> TRUE, err |-> r.err, conn |-> r.conn, stub |-> ~r.err,
     dialed |-> r.dialed, tokenSource |-> tokenSource,
     transport |-> TransportOf(rd.opts),
     creds |-> CallCredsOf(CallOptionsOf(rd.opts)),
     target |-> rd.target, calls |-> rd.calls,
     dialOptions |-> rd.dialOptions, callOptions |-> extraCallOptions,
     insecure |-> insecure]

\* InventoryGRPCClientBuilder.Build() from the token source on; d is what
\* the issuer's discovery endpoint does if the token source asks it.  The
\* connection is made to b.endpoint as it is then (line 164), with the dial
\* options assembled before.
GrpcBuildReturns(rd, d) ==
    IF rd.target = ""
    THEN GrpcReturns(Rejected, FALSE, rd)
    ELSE IF rd.oauth.enable /\ NewTokenSourceFails(rd.oauth, d)
    THEN GrpcReturns(Rejected, FALSE, rd)
    ELSE GrpcReturns(NewClient(target, rd.opts), rd.oauth.enable, rd)

\* Build() reaches the network: the token source asks the issuer for the
\* token endpoint (line 157, http client.Do in discoverTokenEndpoint).
GrpcBuildWaits ==
    /\ target # ""
    /\ oauth.enable
    /\ NeedsDiscovery(oauth)
    /\ ~discoveryRequestFails(oauth.issuerURL)

\* Build() up to the request to the issuer, or to its return when it makes
\* no request.  The builder has no lock: while Build() waits for the
\* issuer, configuration calls of another goroutine take effect.
GrpcBuild ==
    /\ bver = "grpc"
    /\ ~building.waiting
    /\ IF GrpcBuildWaits
       THEN /\ building' = [waiting |-> TRUE, rd |-> GrpcRead, raced |-> 0]
            /\ built' = NotBuilt
            /\ UNCHANGED clientVars
       ELSE /\ built' = GrpcBuildReturns(GrpcRead, [transport |-> FALSE])
            /\ ClientReturned("InventoryGRPCClient", built')
            /\ UNCHANGED building
    /\ UNCHANGED <<bver, target, channelCredentials, perRPCCredentials,
                   insecure, calls, grpcCfg>>
    /\ UNCHANGED <<extraDialOptions, extraCallOptions>>
    /\ UNCHANGED nonExtraBuilderVars

\* The issuer answers (d) and Build() goes on from line 158 to its return:
\* it reads b.endpoint (164) and b.insecure (173) as they are now.
GrpcBuildResumes ==
    /\ bver = "grpc"
    /\ building.waiting
    /\ \E d \in DiscoveryOutcomes :
         built' = GrpcBuildReturns(building.rd, d)
    /\ ClientReturned("InventoryGRPCClient", built')
    /\ building' = NoBuilding
    /\ UNCHANGED <<bver, target, channelCredentials, perRPCCredentials,
                   insecure, calls, grpcCfg>>
    /\ UNCHANGED <<extraDialOptions, extraCallOptions>>
    /\ UNCHANGED nonExtraBuilderVars

\* ---- Close() of the client wrappers
\* A client value made without Build(): its connection field is nil.
ZeroValueClient ==
    /\ bver \in {"v1beta2", "grpc"}
    /\ client = NoClient
    /\ client' = [kind |-> IF bver = "grpc" THEN "InventoryGRPCClient"
                           ELSE "InventoryClient",
                  conn |-> NilConn]
    /\ UNCHANGED <<bver, target, channelCredentials, perRPCCredentials,
                   insecure, calls, built, grpcCfg, connOpen, released,
                   closeLog>>
    /\ UNCHANGED nonBuilderVars

\* (*grpc.ClientConn).Close(): the first call releases the connection and
\* returns nil, a later one returns ErrClientConnClosing; on a nil
\* *ClientConn it dereferences the nil pointer.
ConnClose(conn, open) ==
    IF conn = NilConn THEN [ret |-> "panic", releases |-> 0]
    ELSE IF open THEN [ret |-> "nil", releases |-> 1]
    ELSE [ret |-> "ErrClientConnClosing", releases |-> 0]

\* The effect of a Close() that did r.
Closed(r) ==
    /\ closeLog' = Append(closeLog, r.ret)
    /\ released' = released + r.releases
    /\ connOpen' = (connOpen /\ r.releases = 0)
    /\ UNCHANGED <<bver, target, channelCredentials, perRPCCredentials,
                   insecure, calls, built, grpcCfg, client>>
    /\ UNCHANGED nonBuilderVars

\* InventoryClient.Close (package v1beta2)
InventoryClientClose ==
    /\ client.kind = "InventoryClient"
    /\ Len(closeLog) < MaxCloses
    /\ Closed(IF client.conn # NilConn
              THEN ConnClose(client.conn, connOpen)
              ELSE [ret |-> "nil", releases |-> 0])

\* InventoryGRPCClient.Close (grpc_client_builder.go)
InventoryGRPCClientClose ==
    /\ client.kind = "InventoryGRPCClient"
    /\ Len(closeLog) < MaxCloses
    /\ ~("panic" \in {closeLog[i] : i \in 1..Len(closeLog)})
    /\ Closed(ConnClose(client.conn, connOpen))

NextBuilder ==
    \/ \E o \in OAuth2Args, ch \in ChannelArgs : OAuth2ClientAuthenticated(o, ch)
    \/ \E cc \in CallCredsArgs, ch \in ChannelArgs : Authenticated(cc, ch)
    \/ \E ch \in ChannelArgs : Unauthenticated(ch)
    \/ Insecure
    \/ Build
    \/ \E o \in OAuth2Args, ch \in ChannelArgs :
          InvOAuth2ClientAuthenticated(o, ch)
    \/ \E cc \in CallCredsArgs, ch \in ChannelArgs : InvAuthenticated(cc, ch)
    \/ \E ch \in ChannelArgs : InvUnauthenticated(ch)
    \/ InvInsecure
    \/ \E opt \in DialOptionArgs : InvWithDialOption(opt)
    \/ \E opt \in CallOptionArgs : InvWithCallOption(opt)
    \/ InvBuild
    \/ V1Build
    \/ \E e \in Endpoints : WithEndpoint(e)
    \/ \E flag \in BOOLEAN : WithInsecure(flag)
    \/ \E cfg \in TLSConfigs : WithTLSConfig(cfg)
    \/ \E l \in ClientLogins, url \in TokenURLs :
          WithOAuth2(l.id, l.secret, url)
    \/ \E l \in ClientLogins, url \in IssuerURLs :
          WithOAuth2Issuer(l.id, l.secret, url)
    \/ \E opt \in DialOptionArgs : WithDialOption(opt)
    \/ GrpcBuild
    \/ GrpcBuildResumes
    \/ ZeroValueClient
    \/ InventoryClientClose
    \/ InventoryGRPCClientClose

\* ------------------------------------------------------------------------
\* kessel/rbac/v2/list_workspaces.go
\* ------------------------------------------------------------------------
\* Continuation tokens the server may hand out, and the caller's start token.
PageTokens == {"t1", "t2"}
StartTokens == {"", "t0"}
Relations == {"member", "viewer"}

\* A nil *RequestPagination / *ResponsePagination, a nil response.
NilPagination == [kind |-> "nil"]
NilResponse == [kind |-> "nil"]

\* The pagination of a response: nil, or a continuation token (maybe empty).
ResponsePaginations ==
    {NilPagination} \cup [ContinuationToken : {""} \cup PageTokens]

\* WorkspaceType() of utils.go
WorkspaceType == [ResourceType |-> "workspace", ReporterType |-> "rbac"]

\* The request of lines 21-34, as the stub receives it when the call is made.
\* (The Go request holds &continuationToken, a pointer to the captured
\* variable: it is read when the call is made.)
BuildRequestNoToken(tok) ==
    [ObjectType |-> WorkspaceType,
     Relation |-> relation,
     Subject |-> subject,
     Pagination |->
        IF tok # "" THEN [Limit |-> 1000, ContinuationToken |-> startToken]
        ELSE NilPagination]

BuildRequest(tok) ==
    [ObjectType |-> WorkspaceType,
     Relation |-> relation,
     Subject |-> subject,
     Pagination |->
        IF tok # "" THEN [Limit |-> 1000, ContinuationToken |-> tok]
        ELSE NilPagination]

\* A request object kept by the stub and read now: its token pointer reads
\* the captured variable as it is now.
RequestReadNow(k) ==
    IF requests[k].Pagination = NilPagination THEN requests[k]
    ELSE [requests[k] EXCEPT !.Pagination.ContinuationToken =
                                 continuationToken]

\* lines 57-59: the token of a response with pagination replaces lastToken.
NextLastTokenFirstWins(last, response) ==
    IF response.Pagination # NilPagination /\ last = ""
    THEN response.Pagination.ContinuationToken
    ELSE last

NextLastToken(last, response) ==
    IF response.Pagination # NilPagination
    THEN response.Pagination.ContinuationToken
    ELSE last

\* lines 62-65: after end-of-stream the loop goes on iff lastToken is set.
ContinuesAfterEOFNever(last) == FALSE

\* A loop that starts another stream after every end-of-stream.
ContinuesAfterEOFAlways(last) == TRUE

ContinuesAfterEOF(last) == last # ""

\* The items handed to the consumer.
ResponseItem(response) == [response |-> response, err |-> "nil"]
ErrorItem(msg) == [response |-> NilResponse, err |-> msg]

\* ListWorkspaces(ctx, inventory, subject, relation, continuationToken)
\* returns the iterator function; nothing has run yet.
InitPager ==
    /\ lwPc = "new"
    /\ subject = "alice"
    /\ relation \in Relations
    /\ startToken \in StartTokens
    /\ continuationToken = startToken
    /\ lastToken = ""
    /\ requests = <<>>
    /\ streamLog = <<>>
    /\ endTokens = <<>>
    /\ recvLog = <<>>
    /\ yielded = <<>>
    /\ streamOpen = FALSE
    /\ lwEnd = "none"
    /\ recvCalls = <<>>
    /\ consumerStopped = FALSE
    /\ ctx = "active"

\* The token a stream's responses leave behind: that of the last response
\* that carried pagination, empty when none did.
TrackedToken(log) ==
    LET withPag == {i \in 1..Len(log) : log[i].Pagination # NilPagination}
    IN IF withPag = {} THEN ""
       ELSE log[CHOOSE i \in withPag : \A j \in withPag : j <= i]
               .Pagination.ContinuationToken

\* The consumer starts ranging over the sequence (line 19).
Iterate ==
    /\ lwPc = "new"
    /\ lwPc' = "call"
    /\ UNCHANGED <<subject, relation, startToken, continuationToken,
                   lastToken, requests, streamLog, endTokens, recvLog,
                   yielded, streamOpen, lwEnd>>
    /\ UNCHANGED pagerSeen
    /\ UNCHANGED nonPagerVars

\* lines 21-42: the request is built and StreamedListObjects returns a stream.
StartStream ==
    /\ lwPc = "call"
    /\ Len(requests) < MaxStreams
    /\ requests' = Append(requests, BuildRequest(continuationToken))
    /\ lastToken' = ""
    /\ streamLog' = <<>>
    /\ streamOpen' = TRUE
    /\ lwPc' = "recv"
    /\ recvCalls' = Append(recvCalls, 0)
    /\ UNCHANGED <<subject, relation, startToken, continuationToken,
                   endTokens, recvLog, yielded, lwEnd, consumerStopped, ctx>>
    /\ UNCHANGED nonPagerVars

StartStreamFailsRetries ==
    /\ lwPc = "call"
    /\ Len(requests) < MaxStreams
    /\ requests' = Append(requests, BuildRequest(continuationToken))
    /\ recvCalls' = Append(recvCalls, 0)
    /\ yielded' = Append(yielded, ErrorItem("failed to start stream"))
    /\ \E goOn \in BOOLEAN : consumerStopped' = ~goOn
    /\ lwPc' = "call"
    /\ lwEnd' = "startError"
    /\ UNCHANGED <<subject, relation, startToken, continuationToken,
                   lastToken, streamLog, endTokens, recvLog, streamOpen, ctx>>
    /\ UNCHANGED nonPagerVars

\* lines 36-40: StreamedListObjects fails; the error is yielded (whatever the
\* consumer answers) and the function returns.
StartStreamFails ==
    /\ lwPc = "call"
    /\ Len(requests) < MaxStreams
    /\ requests' = Append(requests, BuildRequest(continuationToken))
    /\ recvCalls' = Append(recvCalls, 0)
    /\ yielded' = Append(yielded, ErrorItem("failed to start stream"))
    /\ \E goOn \in BOOLEAN : consumerStopped' = ~goOn
    /\ lwPc' = "done"
    /\ lwEnd' = "startError"
    /\ UNCHANGED <<subject, relation, startToken, continuationToken,
                   lastToken, streamLog, endTokens, recvLog, streamOpen, ctx>>
    /\ UNCHANGED nonPagerVars

\* lines 44-53: Recv returns a response and yield is called with it; the
\* consumer's loop body runs inside that call.
RecvResponse ==
    /\ lwPc = "recv"
    /\ Len(recvLog) < MaxRecv
    /\ \E pag \in ResponsePaginations :
         LET response == [id |-> Len(recvLog) + 1, Pagination |-> pag]
         IN /\ recvLog' = Append(recvLog, response)
            /\ streamLog' = Append(streamLog, response)
            /\ yielded' = Append(yielded, ResponseItem(response))
    /\ lwPc' = "yield"
    /\ recvCalls' = [recvCalls EXCEPT ![Len(recvCalls)] = @ + 1]
    /\ UNCHANGED <<subject, relation, startToken, continuationToken,
                   lastToken, requests, endTokens, streamOpen, lwEnd,
                   consumerStopped, ctx>>
    /\ UNCHANGED nonPagerVars

YieldReturnsPrefetch ==
    /\ lwPc = "yield"
    /\ \E goOn \in BOOLEAN :
         LET response == streamLog[Len(streamLog)]
             tok == NextLastToken(lastToken, response)
         IN /\ lastToken' = tok
            /\ IF ~goOn
               THEN /\ lwPc' = "done" /\ lwEnd' = "stopped"
                    /\ UNCHANGED continuationToken
               ELSE IF tok # ""
               THEN /\ lwPc' = "call" /\ continuationToken' = tok
                    /\ UNCHANGED lwEnd
               ELSE /\ lwPc' = "recv"
                    /\ UNCHANGED <<lwEnd, continuationToken>>
            /\ consumerStopped' = ~goOn
    /\ UNCHANGED <<subject, relation, startToken, requests, streamLog,
                   endTokens, recvLog, yielded, streamOpen, recvCalls, ctx>>
    /\ UNCHANGED nonPagerVars

YieldReturnsIgnoresStop ==
    /\ lwPc = "yield"
    /\ \E goOn \in BOOLEAN : consumerStopped' = ~goOn
    /\ lastToken' = NextLastToken(lastToken, streamLog[Len(streamLog)])
    /\ lwPc' = "recv"
    /\ UNCHANGED <<subject, relation, startToken, continuationToken,
                   requests, streamLog, endTokens, recvLog, yielded,
                   streamOpen, lwEnd, recvCalls, ctx>>
    /\ UNCHANGED nonPagerVars

\* lines 53-59: yield returns; the consumer either stopped (false: the
\* function returns) or goes on, and only then lastToken is updated.
YieldReturns ==
    /\ lwPc = "yield"
    /\ \E goOn \in BOOLEAN :
         /\ IF goOn
            THEN /\ lastToken' =
                       NextLastToken(lastToken, streamLog[Len(streamLog)])
                 /\ lwPc' = "recv"
                 /\ UNCHANGED lwEnd
            ELSE /\ lwPc' = "done"
                 /\ lwEnd' = "stopped"
                 /\ UNCHANGED lastToken
         /\ consumerStopped' = ~goOn
    /\ UNCHANGED <<subject, relation, startToken, continuationToken,
                   requests, streamLog, endTokens, recvLog, yielded,
                   streamOpen, recvCalls, ctx>>
    /\ UNCHANGED nonPagerVars

\* lines 45-47 and 62-65: Recv returns io.EOF; the loop ends the sequence or
\* goes round with lastToken as the next continuation token.
RecvEOF ==
    /\ lwPc = "recv"
    /\ streamOpen' = FALSE
    /\ endTokens' = Append(endTokens, TrackedToken(streamLog))
    /\ IF ContinuesAfterEOF(lastToken)
       THEN /\ continuationToken' = lastToken
            /\ lwPc' = "call"
            /\ UNCHANGED lwEnd
       ELSE /\ lwPc' = "done"
            /\ lwEnd' = "end"
            /\ UNCHANGED continuationToken
    /\ recvCalls' = [recvCalls EXCEPT ![Len(recvCalls)] = @ + 1]
    /\ UNCHANGED <<subject, relation, startToken, lastToken, requests,
                   streamLog, recvLog, yielded, consumerStopped, ctx>>
    /\ UNCHANGED nonPagerVars

RecvErrorContinues ==
    /\ lwPc = "recv"
    /\ recvCalls' = [recvCalls EXCEPT ![Len(recvCalls)] = @ + 1]
    /\ yielded' = Append(yielded, ErrorItem("error receiving from stream"))
    /\ \E goOn \in BOOLEAN : consumerStopped' = ~goOn
    /\ streamOpen' = FALSE
    /\ lwEnd' = "recvError"
    /\ IF lastToken # ""
       THEN lwPc' = "call" /\ continuationToken' = lastToken
       ELSE lwPc' = "done" /\ UNCHANGED continuationToken
    /\ UNCHANGED <<subject, relation, startToken,
                   lastToken, requests, streamLog, endTokens, recvLog, ctx>>
    /\ UNCHANGED nonPagerVars

\* lines 48-51: Recv returns another error; it is yielded and the function
\* returns.
RecvError ==
    /\ lwPc = "recv"
    /\ recvCalls' = [recvCalls EXCEPT ![Len(recvCalls)] = @ + 1]
    /\ yielded' = Append(yielded, ErrorItem("error receiving from stream"))
    /\ \E goOn \in BOOLEAN : consumerStopped' = ~goOn
    /\ streamOpen' = FALSE
    /\ lwPc' = "done"
    /\ lwEnd' = "recvError"
    /\ UNCHANGED <<subject, relation, startToken, continuationToken,
                   lastToken, requests, streamLog, endTokens, recvLog, ctx>>
    /\ UNCHANGED nonPagerVars

\* The caller cancels the context it passed (line 13); ListWorkspaces hands
\* it to StreamedListObjects (line 36) and reads it nowhere itself, so what
\* follows is up to the stub: it may fail the next call or Recv, or go on.
\* The consumer may do so in its loop body, while a yield is under way.
CancelContext ==
    /\ ctx = "active"
    /\ lwPc # "done"
    /\ ctx' = "cancelled"
    /\ UNCHANGED <<lwPc, subject, relation, startToken, continuationToken,
                   lastToken, requests, streamLog, endTokens, recvLog,
                   yielded, streamOpen, lwEnd, recvCalls, consumerStopped>>
    /\ UNCHANGED nonPagerVars

NextPager ==
    \/ Iterate
    \/ StartStream
    \/ StartStreamFails
    \/ RecvResponse
    \/ YieldReturns
    \/ RecvEOF
    \/ RecvError
    \/ CancelContext

\* ------------------------------------------------------------------------
\* kessel/errors (package errors)
\* ------------------------------------------------------------------------
\* An error value is its Unwrap chain, outermost first; nil is the empty
\* chain.  A link is one of
\*   errorString  what errors.New returns: a pointer (id) and its text,
\*   statusError  what status.Error returns: a gRPC code and its text,
\*   wrapError    what fmt.Errorf returns for one %w: the formatted text,
\*   Error        *Error: Code and Message; the rest of the chain is Cause.
\* A text is the sequence of its parts, joined by ": " when printed.
NilError == <<>>

errorsNew(id, text) == <<[t |-> "errorString", id |-> id, text |-> <<text>>]>>

statusError(code, text) ==
    <<[t |-> "statusError", code |-> code, text |-> <<"rpc error", code, text>>]>>

\* Sentinel errors for common scenarios
ErrConnectionFailed == errorsNew("ErrConnectionFailed", "connection failed")
ErrTokenRetrieval == errorsNew("ErrTokenRetrieval", "token retrieval failed")
ErrTokenCacheNotFound == errorsNew("ErrTokenCacheNotFound", "cached token not found")
ErrUnexpectedStatus == errorsNew("ErrUnexpectedStatus", "unexpected status code")
ErrHTTPClientCreation == errorsNew("ErrHTTPClientCreation", "HTTP client creation failed")
ErrResourceClose == errorsNew("ErrResourceClose", "resource close failed")

\* (*Error).Error, and Error of the other links: the text an error prints.
RECURSIVE ErrorText(_)
ErrorText(err) ==
    IF err = NilError THEN <<>>
    ELSE IF Head(err).t = "Error"
         THEN Head(err).Message \o ErrorText(Tail(err))
         ELSE Head(err).text

\* (*Error).Unwrap, and Unwrap of a wrapError: the rest of the chain.
Unwrap(err) == IF err = NilError THEN NilError ELSE Tail(err)

\* errors.Is(err, sentinel) for a sentinel made by errors.New: some error of
\* the chain is the sentinel itself (the same pointer, whatever its text).
Is(err, sentinel) ==
    \E i \in 1..Len(err) :
        /\ err[i].t = "errorString"
        /\ err[i].id = sentinel[1].id

\* fmt.Errorf("<context>: %w", err): a new link in front of err's chain.
ErrorfW(context, err) ==
    <<[t |-> "wrapError", text |-> <<context>> \o ErrorText(err)]>> \o err

\* fmt.Errorf("%w: %v", sentinel, cause): only the sentinel is wrapped; the
\* cause is printed into the text and its chain is not kept.
ErrorfWV(sentinel, cause) ==
    <<[t |-> "wrapError", text |-> ErrorText(sentinel) \o ErrorText(cause)]>>
        \o sentinel

\* status.FromError(cause) of grpc v1.73: the first error of the chain that
\* has a GRPCStatus method gives the code; ok is false when there is none.
FromError(cause) ==
    LET S == {i \in 1..Len(cause) : cause[i].t \in {"Error", "statusError"}}
    IN  IF S = {} THEN [ok |-> FALSE, code |-> "Unknown"]
        ELSE LET i == CHOOSE j \in S : \A k \in S : j <= k
             IN  [ok |-> TRUE,
                  code |-> IF cause[i].t = "Error" THEN cause[i].Code
                           ELSE cause[i].code]

\* Wrap as package errors of src/pkg/kessel/errors wrote it: no sentinel.
WrapNoSentinel(sentinel, cause, message) ==
    IF cause = NilError THEN NilError
    ELSE <<[t |-> "Error", Code |-> FromError(cause).code,
            Message |-> <<message>>]>> \o cause

\* Wrap wraps an error with a sentinel error for easier identification
Wrap(sentinel, cause, message) ==
    IF cause = NilError THEN NilError
    ELSE <<[t |-> "Error", Code |-> FromError(cause).code,
            Message |-> <<message>>]>> \o ErrorfWV(sentinel, cause)

\* New creates a new error with a sentinel for categorization
New(sentinel, code, message) ==
    <<[t |-> "Error", Code |-> code, Message |-> message]>> \o sentinel

NewConnectionError(cause, message) == Wrap(ErrConnectionFailed, cause, message)
NewTokenError(cause, message) == Wrap(ErrTokenRetrieval, cause, message)
NewTokenCacheError(message) == New(ErrTokenCacheNotFound, "NotFound", <<message>>)
NewStatusError(statusCode, message) ==
    New(ErrUnexpectedStatus, "InvalidArgument",
        <<message, "status code", statusCode>>)
NewHTTPClientError(cause, message) == Wrap(ErrHTTPClientCreation, cause, message)
NewResourceCloseError(cause, message) == Wrap(ErrResourceClose, cause, message)

IsConnectionError(err) == Is(err, ErrConnectionFailed)
IsTokenError(err) == Is(err, ErrTokenRetrieval)
IsTokenCacheError(err) == Is(err, ErrTokenCacheNotFound)
IsStatusError(err) == Is(err, ErrUnexpectedStatus)
IsHTTPClientError(err) == Is(err, ErrHTTPClientCreation)
IsResourceCloseError(err) == Is(err, ErrResourceClose)

\* The inputs: causes a layer below the SDK hands up (one of them prints
\* the text of a sentinel without being it), messages and HTTP status codes
\* (as %d prints them).
Causes == {errorsNew("cause1", "test cause"),
           errorsNew("cause2", "connection failed"),
           statusError("Unavailable", "service unavailable")}
Messages == {"failed"}
StatusCodes == {"404", "500"}
MaxLayers == 2

\* The kinds whose constructor takes a cause.
WrapKinds == {"connection", "token", "httpClient", "resourceClose"}

InitErrors ==
    /\ errv = NilError
    /\ madeBy = "none"
    /\ given = NilError
    /\ lastOp = <<>>

\* The causes a constructor may be given now: a cause from below (or nil)
\* when no error was made yet, else the error made so far.
CausesNow ==
    IF lastOp = <<>> THEN Causes \cup {NilError}
    ELSE IF errv # NilError /\ Len(lastOp) <= MaxLayers THEN {errv}
    ELSE {}

Made(kind, op, cause, e) ==
    /\ errv' = e
    /\ madeBy' = kind
    /\ given' = cause
    /\ lastOp' = Append(lastOp, op)
    /\ UNCHANGED nonErrVars

MakeConnectionError ==
    \E cause \in CausesNow, message \in Messages :
        Made("connection", "NewConnectionError", cause,
             NewConnectionError(cause, message))

MakeTokenError ==
    \E cause \in CausesNow, message \in Messages :
        Made("token", "NewTokenError", cause, NewTokenError(cause, message))

MakeHTTPClientError ==
    \E cause \in CausesNow, message \in Messages :
        Made("httpClient", "NewHTTPClientError", cause,
             NewHTTPClientError(cause, message))

MakeResourceCloseError ==
    \E cause \in CausesNow, message \in Messages :
        Made("resourceClose", "NewResourceCloseError", cause,
             NewResourceCloseError(cause, message))

MakeTokenCacheError ==
    /\ lastOp = <<>>
    /\ \E message \in Messages :
        Made("tokenCache", "NewTokenCacheError", NilError,
             NewTokenCacheError(message))

MakeStatusError ==
    /\ lastOp = <<>>
    /\ \E statusCode \in StatusCodes, message \in Messages :
        Made("status", "NewStatusError", NilError,
             NewStatusError(statusCode, message))

\* A layer below the SDK returns a plain error.
MakePlainError ==
    /\ lastOp = <<>>
    /\ \E cause \in Causes : Made("none", "errors.New", cause, cause)

\* A layer above adds context with fmt.Errorf("...: %w", err).
AddContext ==
    /\ errv # NilError
    /\ lastOp # <<>>
    /\ Len(lastOp) <= MaxLayers
    /\ errv' = ErrorfW("context", errv)
    /\ lastOp' = Append(lastOp, "fmt.Errorf")
    /\ UNCHANGED <<madeBy, given>>
    /\ UNCHANGED nonErrVars

NextErrors ==
    \/ MakeConnectionError
    \/ MakeTokenError
    \/ MakeHTTPClientError
    \/ MakeResourceCloseError
    \/ MakeTokenCacheError
    \/ MakeStatusError
    \/ MakePlainError
    \/ AddContext

\* ------------------------------------------------------------------------
\* The inventory service clients: pkg/kessel/client (GRPCClient, HTTPClient)
\* and kessel/inventory/v1beta2 (InventoryGRPCClient)
\* ------------------------------------------------------------------------
MaxRPCs == 2

ClientTypes == {"GRPCClient", "HTTPClient", "InventoryGRPCClient"}
RPCs == {"Check", "CheckForUpdate", "ReportResource", "DeleteResource",
         "StreamedListObjects"}

\* What the caller of InventoryGRPCClient passes to the stub it calls:
\* nothing, or the options one of the client's helpers returned.
HandOptions == {"none", "GetCallOptions", "GetInsecureCallOptions",
                "GetTokenCallOption"}

NoAuthorization == ""
Bearer == "Bearer TokA"

\* NewGRPCClient, NewHTTPClient and InventoryGRPCClientBuilder.Build set the
\* token source iff OAuth is enabled; the connection is insecure iff the
\* configuration says so.
InitRpc ==
    /\ rpcClient \in ClientTypes
    /\ rpcConfig \in [EnableOauth : BOOLEAN, Insecure : BOOLEAN]
    /\ rpcTokenSource = rpcConfig.EnableOauth
    /\ sent = <<>>
    /\ rpcLog = <<>>

\* A gRPC call with per-RPC credentials: the transport asks the credentials
\* for the metadata before it sends; credentials that require transport
\* security on an insecure connection, or a token that cannot be had, fail
\* the RPC and nothing is sent.
GrpcInvoke(rpc, creds, tokenOk) ==
    IF creds = "none" THEN [outcome |-> "sent", authorization |-> NoAuthorization]
    ELSE IF creds = "secure" /\ rpcConfig.Insecure
         THEN [outcome |-> "error", authorization |-> NoAuthorization]
    ELSE IF ~tokenOk THEN [outcome |-> "error", authorization |-> NoAuthorization]
    ELSE [outcome |-> "sent", authorization |-> Bearer]

\* The caller sees the outcome; a request that was sent reached the service.
Invoked(rpc, opts, tokenOk, r) ==
    /\ rpcLog' = Append(rpcLog, [rpc |-> rpc, opts |-> opts,
                                 tokenOk |-> tokenOk, outcome |-> r.outcome])
    /\ sent' = IF r.outcome = "sent"
               THEN Append(sent, [rpc |-> rpc, authorization |-> r.authorization])
               ELSE sent
    /\ UNCHANGED <<rpcClient, rpcConfig, rpcTokenSource>>
    /\ UNCHANGED nonRpcVars

\* GRPCClient.getTokenCallOption: the credentials of the call option.
getTokenCallOption ==
    IF rpcConfig.EnableOauth /\ rpcTokenSource
    THEN IF rpcConfig.Insecure THEN "insecure" ELSE "secure"
    ELSE "none"

\* GRPCClient.Check, CheckForUpdate, ReportResource, DeleteResource and
\* StreamedListObjects: the same body for each.
GRPCClientCall ==
    /\ rpcClient = "GRPCClient"
    /\ Len(rpcLog) < MaxRPCs
    /\ \E rpc \in RPCs, tokenOk \in BOOLEAN :
        Invoked(rpc, "none", tokenOk,
                GrpcInvoke(rpc, getTokenCallOption, tokenOk))

\* HTTPClient.getTokenHTTPOption: the Authorization header, or an error.
getTokenHTTPOption(tokenOk) ==
    IF rpcConfig.EnableOauth /\ rpcTokenSource
    THEN IF tokenOk THEN [err |-> FALSE, authorization |-> Bearer]
         ELSE [err |-> TRUE, authorization |-> NoAuthorization]
    ELSE [err |-> FALSE, authorization |-> NoAuthorization]

\* HTTPClient.Check, CheckForUpdate, ReportResource and DeleteResource: an
\* error of getTokenHTTPOption is logged and the request goes out with the
\* options it returned, which are nil then.
HTTPClientCall ==
    /\ rpcClient = "HTTPClient"
    /\ Len(rpcLog) < MaxRPCs
    /\ \E rpc \in RPCs \ {"StreamedListObjects"}, tokenOk \in BOOLEAN :
        LET o == getTokenHTTPOption(tokenOk)
        IN  Invoked(rpc, "none", tokenOk,
                    [outcome |-> "sent", authorization |-> o.authorization])

\* HTTPClient.StreamedListObjects panics.
HTTPClientStreamedListObjects ==
    /\ rpcClient = "HTTPClient"
    /\ Len(rpcLog) < MaxRPCs
    /\ \E tokenOk \in BOOLEAN :
        Invoked("StreamedListObjects", "none", tokenOk,
                [outcome |-> "panic", authorization |-> NoAuthorization])

\* InventoryGRPCClient.GetCallOptions, GetInsecureCallOptions and
\* GetTokenCallOption: the credentials of the options they return, or an
\* error (GetTokenCallOption fetches the token itself).
HandCreds(opts, tokenOk) ==
    IF opts = "none" \/ ~rpcTokenSource THEN [err |-> FALSE, creds |-> "none"]
    ELSE IF opts = "GetCallOptions" THEN [err |-> FALSE, creds |-> "secure"]
    ELSE IF opts = "GetInsecureCallOptions"
         THEN [err |-> FALSE, creds |-> "insecure"]
    ELSE IF ~tokenOk THEN [err |-> TRUE, creds |-> "none"]
    ELSE [err |-> FALSE,
          creds |-> IF rpcConfig.Insecure THEN "insecure" ELSE "secure"]

\* The caller of InventoryGRPCClient calls the generated stub in
\* KesselInventoryService with the options it chose; Build() put no
\* credentials on the connection.  A caller whose helper failed does not
\* make the call.
InventoryGRPCClientCall ==
    /\ rpcClient = "InventoryGRPCClient"
    /\ Len(rpcLog) < MaxRPCs
    /\ \E rpc \in RPCs, opts \in HandOptions, tokenOk \in BOOLEAN :
        LET h == HandCreds(opts, tokenOk)
        IN  Invoked(rpc, opts, tokenOk,
                    IF h.err
                    THEN [outcome |-> "error", authorization |-> NoAuthorization]
                    ELSE GrpcInvoke(rpc, h.creds, tokenOk))

NextRpc ==
    \/ GRPCClientCall
    \/ HTTPClientCall
    \/ HTTPClientStreamedListObjects
    \/ InventoryGRPCClientCall

\* ------------------------------------------------------------------------
\* kessel/rbac/v2/workspace.go
\* ------------------------------------------------------------------------
MaxData == 2

workspaceEndpoint == <<"/api/rbac/v2/workspaces/">>

\* A base endpoint is the sequence of its parts; "/" is one slash.
\* The part "<DEL>" stands for a control character (0x7f), which makes
\* url.Parse, and with it http.NewRequest, fail.
BaseEndpoints == {<<"http://rbac">>, <<"http://rbac", "/">>,
                  <<"http://rbac", "/", "/">>, <<"http://rbac", "<DEL>">>}

OrgIds == {"org123"}
\* options.Auth: nil, or an AuthRequest whose ConfigureRequest sets the
\* authorization header, or one whose ConfigureRequest fails.
AuthRequests == {"nil", "sets header", "fails"}

\* strings.TrimRight(s, "/")
RECURSIVE TrimRight(_)
TrimRight(s) ==
    IF s # <<>> /\ s[Len(s)] = "/" THEN TrimRight(SubSeq(s, 1, Len(s) - 1))
    ELSE s

Workspaces == {[Id |-> "ws1", Name |-> "WS1"], [Id |-> "ws2", Name |-> "WS2"]}

\* The bodies the server may answer with: text that is not JSON, a body
\* whose read fails, or a JSON document with a data array.
RECURSIVE SeqsUpTo(_, _)
SeqsUpTo(S, n) ==
    IF n = 0 THEN {<<>>}
    ELSE SeqsUpTo(S, n - 1) \cup
         {Append(q, x) : q \in {r \in SeqsUpTo(S, n - 1) : Len(r) = n - 1},
                         x \in S}

Bodies == {[kind |-> "invalid json"], [kind |-> "read error"]}
              \cup {[kind |-> "json", data |-> d] : d \in SeqsUpTo(Workspaces, MaxData)}
HTTPStatuses == {200, 201, 404, 500}

NilWorkspace == [kind |-> "nil"]
NoRequest == [kind |-> "nil"]
NoResponse == [kind |-> "nil"]
NotFetched == [called |-> FALSE]

\* io.ReadAll and json.Unmarshal of the body into workspaceAPIResponse.
ReadAll(body) == [err |-> body.kind = "read error"]
Unmarshal(body) ==
    IF body.kind = "json" THEN [err |-> FALSE, Data |-> body.data]
    ELSE [err |-> TRUE, Data |-> <<>>]

InitWs ==
    /\ wsPc = "idle"
    /\ wsArgs \in [rbacBaseEndpoint : BaseEndpoints, orgId : OrgIds,
                   Auth : AuthRequests]
    /\ workspaceType = ""
    /\ wsRequest = NoRequest
    /\ served = <<>>
    /\ wsResponse = NoResponse
    /\ wsResult = NotFetched

FetchReturns(ws, err) ==
    /\ wsPc' = "done"
    /\ wsResult' = [called |-> TRUE, ws |-> ws, err |-> err]

\* fetchWorkspace, lines 34-50: the request with its query and org header.
fetchWorkspace(type) ==
    LET url == TrimRight(wsArgs.rbacBaseEndpoint) \o workspaceEndpoint
    IN  /\ workspaceType' = type
        /\ IF ParseFails(url)
           THEN \* lines 41-44: http.NewRequest fails
                /\ FetchReturns(NilWorkspace, "invalid URL")
                /\ UNCHANGED wsRequest
           ELSE /\ wsRequest' =
                     [method |-> "GET",
                      url |-> url,
                      query |-> [type |-> type],
                      header |-> [orgId |-> wsArgs.orgId,
                                  authorization |-> ""]]
                /\ wsPc' = "auth"
                /\ UNCHANGED wsResult
        /\ UNCHANGED <<wsArgs, served, wsResponse>>
        /\ UNCHANGED nonWsVars

FetchRootWorkspace ==
    /\ wsPc = "idle"
    /\ fetchWorkspace("root")

FetchDefaultWorkspace ==
    /\ wsPc = "idle"
    /\ fetchWorkspace("default")

\* Lines 52-57 with the error of ConfigureRequest dropped.
ConfigureRequestIgnoresError ==
    /\ wsPc = "auth"
    /\ wsRequest' = IF wsArgs.Auth = "sets header"
                  THEN [wsRequest EXCEPT !.header.authorization = "Bearer tok"]
                  ELSE wsRequest
    /\ wsPc' = "do"
    /\ UNCHANGED <<wsArgs, workspaceType, served, wsResponse, wsResult>>
    /\ UNCHANGED nonWsVars

\* Lines 52-57: options.Auth.ConfigureRequest, when Auth is set.
ConfigureRequest ==
    /\ wsPc = "auth"
    /\ IF wsArgs.Auth = "fails"
       THEN /\ FetchReturns(NilWorkspace, "auth failed")
            /\ UNCHANGED wsRequest
       ELSE /\ wsRequest' = IF wsArgs.Auth = "sets header"
                          THEN [wsRequest EXCEPT !.header.authorization = "Bearer tok"]
                          ELSE wsRequest
            /\ wsPc' = "do"
            /\ UNCHANGED wsResult
    /\ UNCHANGED <<wsArgs, workspaceType, served, wsResponse>>
    /\ UNCHANGED nonWsVars

\* Lines 59-62: httpClient.Do fails (the server is not reached).
DoFails ==
    /\ wsPc = "do"
    /\ FetchReturns(NilWorkspace, "transport error")
    /\ UNCHANGED <<wsArgs, workspaceType, wsRequest, served, wsResponse>>
    /\ UNCHANGED nonWsVars

\* Line 59: httpClient.Do sends the request and the server answers.
Do ==
    /\ wsPc = "do"
    /\ served' = Append(served, wsRequest)
    /\ \E status \in HTTPStatuses, body \in Bodies :
        wsResponse' = [StatusCode |-> status, Body |-> body]
    /\ wsPc' = "wsResponse"
    /\ UNCHANGED <<wsArgs, workspaceType, wsRequest, wsResult>>
    /\ UNCHANGED nonWsVars

\* Lines 66-87 taking the first element of a data array of any length >= 1.
ReadResponseFirstOfMany ==
    /\ wsPc = "wsResponse"
    /\ LET u == Unmarshal(wsResponse.Body)
       IN  IF wsResponse.StatusCode # 200 THEN FetchReturns(NilWorkspace, "http status")
           ELSE IF ReadAll(wsResponse.Body).err
                THEN FetchReturns(NilWorkspace, "error reading wsResponse body")
           ELSE IF u.err THEN FetchReturns(NilWorkspace, "error unmarshalling wsResponse")
           ELSE IF Len(u.Data) < 1
                THEN FetchReturns(NilWorkspace, "unexpected number of workspaces")
           ELSE FetchReturns(u.Data[1], "nil")
    /\ UNCHANGED <<wsArgs, workspaceType, wsRequest, served, wsResponse>>
    /\ UNCHANGED nonWsVars

\* Lines 66-87: status, body, decoding and the count of workspaces.
ReadResponse ==
    /\ wsPc = "wsResponse"
    /\ LET u == Unmarshal(wsResponse.Body)
       IN  IF wsResponse.StatusCode # 200 THEN FetchReturns(NilWorkspace, "http status")
           ELSE IF ReadAll(wsResponse.Body).err
                THEN FetchReturns(NilWorkspace, "error reading wsResponse body")
           ELSE IF u.err THEN FetchReturns(NilWorkspace, "error unmarshalling wsResponse")
           ELSE IF Len(u.Data) # 1
                THEN FetchReturns(NilWorkspace, "unexpected number of workspaces")
           ELSE FetchReturns(u.Data[1], "nil")
    /\ UNCHANGED <<wsArgs, workspaceType, wsRequest, served, wsResponse>>
    /\ UNCHANGED nonWsVars

\* The caller cancels ctx before the fetch or while it is at the auth step or
\* the HTTP call. fetchWorkspace hands ctx to options.Auth.ConfigureRequest
\* only: the request is made by http.NewRequest (line 41), whose context is
\* context.Background(), so httpClient.Do does not see the cancellation.
CancelFetchContext ==
    /\ wsPc \in {"idle", "auth", "do"}
    /\ wsCtx = "active"
    /\ wsCtx' = "cancelled"
    /\ UNCHANGED nonWcVars

NextWs ==
    \/ FetchRootWorkspace
    \/ FetchDefaultWorkspace
    \/ ConfigureRequest
    \/ DoFails
    \/ Do
    \/ ReadResponse
    \/ CancelFetchContext

\* ------------------------------------------------------------------------
\* auth.NewTokenSource and discoverTokenEndpoint (package auth)
\* ------------------------------------------------------------------------
\* A URL is the sequence of its parts; "/" is one slash.
TsClientIDs == {"", "test-client"}
TsClientSecrets == {"", "test-secret"}
TsTokenURLs == {<<>>, <<"https://auth.example.com/token">>,
                <<"https://sso.example.com/token">>}
TsIssuerURLs == {<<>>, <<"https://auth.example.com">>,
                 <<"https://auth.example.com", "/">>,
                 <<"https://auth.example.com", "<DEL>">>}
TsScopes == {<<>>, <<"read", "write">>}

NotCalled == [called |-> FALSE]

InitTs ==
    /\ tsCfg \in [ClientID : TsClientIDs, ClientSecret : TsClientSecrets,
                  TokenURL : TsTokenURLs, IssuerURL : TsIssuerURLs,
                  Scopes : TsScopes]
    /\ tsPc = "idle"
    /\ discoveries = <<>>
    /\ tsResult = NotCalled

\* NewTokenSource returns an error, or a token source for a token URL.
TokenSourceFails(message) ==
    [called |-> TRUE, source |-> FALSE, TokenURL |-> <<>>,
     err |-> New(ErrTokenRetrieval, "InvalidArgument", <<message>>)]

TokenSourceFor(tokenURL) ==
    [called |-> TRUE, source |-> TRUE, TokenURL |-> tokenURL,
     err |-> NilError]

\* NewTokenSource that asks the issuer whenever an issuer URL is set.
NewTokenSourcePrefersIssuer ==
    /\ tsPc = "idle"
    /\ IF tsCfg.ClientID = "" \/ tsCfg.ClientSecret = ""
       THEN /\ tsResult' = TokenSourceFails("client_id and client_secret are required")
            /\ tsPc' = "done"
            /\ UNCHANGED discoveries
       ELSE IF tsCfg.IssuerURL # <<>>
       THEN IF discoveryRequestFails(tsCfg.IssuerURL)
            THEN /\ tsResult' = TokenSourceFails("failed to discover token endpoint")
                 /\ tsPc' = "done"
                 /\ UNCHANGED discoveries
            ELSE /\ discoveries' = Append(discoveries, discoveryURL(tsCfg.IssuerURL))
                 /\ tsPc' = "discovering"
                 /\ UNCHANGED tsResult
       ELSE IF tsCfg.TokenURL # <<>>
       THEN /\ tsResult' = TokenSourceFor(tsCfg.TokenURL)
            /\ tsPc' = "done"
            /\ UNCHANGED discoveries
       ELSE /\ tsResult' = TokenSourceFails("either token_url or issuer_url must be provided")
            /\ tsPc' = "done"
            /\ UNCHANGED discoveries
    /\ UNCHANGED tsCfg
    /\ UNCHANGED nonTsVars

\* NewTokenSource up to its return or to the discovery request it sends.
NewTokenSource ==
    /\ tsPc = "idle"
    /\ IF tsCfg.ClientID = "" \/ tsCfg.ClientSecret = ""
       THEN /\ tsResult' = TokenSourceFails("client_id and client_secret are required")
            /\ tsPc' = "done"
            /\ UNCHANGED discoveries
       ELSE IF tsCfg.TokenURL # <<>>
       THEN /\ tsResult' = TokenSourceFor(tsCfg.TokenURL)
            /\ tsPc' = "done"
            /\ UNCHANGED discoveries
       ELSE IF tsCfg.IssuerURL # <<>>
       THEN IF discoveryRequestFails(tsCfg.IssuerURL)
            THEN /\ tsResult' = TokenSourceFails("failed to discover token endpoint")
                 /\ tsPc' = "done"
                 /\ UNCHANGED discoveries
            ELSE /\ discoveries' = Append(discoveries, discoveryURL(tsCfg.IssuerURL))
                 /\ tsPc' = "discovering"
                 /\ UNCHANGED tsResult
       ELSE /\ tsResult' = TokenSourceFails("either token_url or issuer_url must be provided")
            /\ tsPc' = "done"
            /\ UNCHANGED discoveries
    /\ UNCHANGED tsCfg
    /\ UNCHANGED nonTsVars

\* The discovery request ends and NewTokenSource returns.
Discovered ==
    /\ tsPc = "discovering"
    /\ \E o \in DiscoveryOutcomes :
        LET d == discoverTokenEndpoint(o)
        IN  tsResult' = IF d.err
                        THEN TokenSourceFails("failed to discover token endpoint")
                        ELSE TokenSourceFor(d.url)
    /\ tsPc' = "done"
    /\ UNCHANGED <<tsCfg, discoveries>>
    /\ UNCHANGED nonTsVars

NextTs ==
    \/ NewTokenSource
    \/ Discovered

\* The parts of the SDK that a specification leaves alone.
IdleBuilder ==
    /\ bver = "internal"
    /\ target = ""
    /\ channelCredentials = "tls"
    /\ perRPCCredentials = NoCreds
    /\ insecure = FALSE
    /\ calls = <<>>
    /\ built = NotBuilt
    /\ tlsConfig = "nil"
    /\ oauth = NoOAuth
    /\ client = NoClient
    /\ connOpen = FALSE
    /\ released = 0
    /\ closeLog = <<>>

IdlePager ==
    /\ lwPc = "new"
    /\ subject = "alice"
    /\ relation = "member"
    /\ startToken = ""
    /\ continuationToken = ""
    /\ lastToken = ""
    /\ requests = <<>>
    /\ streamLog = <<>>
    /\ endTokens = <<>>
    /\ recvLog = <<>>
    /\ yielded = <<>>
    /\ streamOpen = FALSE
    /\ lwEnd = "none"
    /\ recvCalls = <<>>
    /\ consumerStopped = FALSE
    /\ ctx = "active"

IdleToken == InitToken

IdleErrors == InitErrors

IdleCt ==
    /\ ctPc = "idle"
    /\ ctCfg = [EnableOauth |-> FALSE, ClientID |-> "", ClientSecret |-> "",
                TokenURL |-> ""]
    /\ ctConn = "none"
    /\ ctCloses = <<>>
    /\ ctResult = [called |-> FALSE]

IdleDc ==
    /\ dcPkg = "kessel/config"
    /\ dcCfg = [IssuerURL |-> <<>>, TokenURL |-> <<>>]
    /\ dcPc = "idle"
    /\ dcRequests = <<>>
    /\ dcBefore = <<>>
    /\ dcOutcome = [transport |-> FALSE]
    /\ dcResult = [called |-> FALSE]

IdleAr ==
    /\ arPc = "idle"
    /\ arCached = EmptyToken
    /\ arHeader = [authorization |-> <<>>, orgId |-> ""]
    /\ arBefore = [authorization |-> <<>>, orgId |-> ""]
    /\ arToken = NoResult
    /\ arResult = "none"
    /\ arCalls = 0

IdleWc == wsCtx = "active"

IdleExtra ==
    /\ extraDialOptions = <<>>
    /\ extraCallOptions = <<>>
    /\ building = NoBuilding

IdleSz ==
    /\ szPc = "start"
    /\ szPath = "none"
    /\ szConfig = [Endpoint |-> <<>>, MaxReceiveMessageSize |-> -1,
                   MaxSendMessageSize |-> -1]
    /\ szBuilder = [endpoint |-> <<>>, maxReceiveMessageSize |-> -1,
                    maxSendMessageSize |-> -1, dialOptions |-> <<>>]
    /\ szCalled = [receive |-> <<>>, send |-> <<>>]
    /\ szConn = [err |-> FALSE, MaxCallRecvMsgSize |-> -1,
                 MaxCallSendMsgSize |-> -1]

IdleTs ==
    /\ tsCfg = [ClientID |-> "", ClientSecret |-> "", TokenURL |-> <<>>,
                IssuerURL |-> <<>>, Scopes |-> <<>>]
    /\ tsPc = "idle"
    /\ discoveries = <<>>
    /\ tsResult = NotCalled

IdleWs ==
    /\ wsPc = "idle"
    /\ wsArgs = [rbacBaseEndpoint |-> <<"http://rbac">>, orgId |-> "org123",
                 Auth |-> "nil"]
    /\ workspaceType = ""
    /\ wsRequest = NoRequest
    /\ served = <<>>
    /\ wsResponse = NoResponse
    /\ wsResult = NotFetched

IdleRpc ==
    /\ rpcClient = "GRPCClient"
    /\ rpcConfig = [EnableOauth |-> FALSE, Insecure |-> FALSE]
    /\ rpcTokenSource = FALSE
    /\ sent = <<>>
    /\ rpcLog = <<>>

InitTokenOnly == InitToken /\ IdleBuilder /\ IdlePager /\ IdleErrors /\ IdleRpc /\ IdleWs /\ IdleTs /\ IdleSz /\ IdleCt /\ IdleDc /\ IdleAr /\ IdleWc /\ IdleExtra

SpecToken == InitTokenOnly /\ [][NextToken]_vars

\* One step of goroutine p inside a GetToken call it has started.
StepToken(p) ==
    \/ ReadAccessToken(p)
    \/ ReadExpiresAt(p)
    \/ CopyCached(p)
    \/ ClearCache(p)
    \/ CallTokenEndpoint(p)
    \/ TokenEndpointAnswers(p)
    \/ StoreToken(p)
    \/ ReturnRefreshed(p)

\* The Go scheduler runs every runnable goroutine, every token-endpoint
\* request returns, and sync.Mutex hands the lock to a goroutine that keeps
\* waiting for it (starvation mode).
FairToken ==
    \A p \in Procs : WF_vars(StepToken(p)) /\ SF_vars(Lock(p))

SpecTokenFair == InitTokenOnly /\ [][NextToken]_vars /\ FairToken

InitBuilderOnly == InitBuilder /\ IdleToken /\ IdlePager /\ IdleErrors /\ IdleRpc /\ IdleWs /\ IdleTs /\ IdleSz /\ IdleCt /\ IdleDc /\ IdleAr /\ IdleWc /\ IdleExtra

SpecBuilder == InitBuilderOnly /\ [][NextBuilder]_vars

InitPagerOnly == InitPager /\ IdleToken /\ IdleBuilder /\ IdleErrors /\ IdleRpc /\ IdleWs /\ IdleTs /\ IdleSz /\ IdleCt /\ IdleDc /\ IdleAr /\ IdleWc /\ IdleExtra

SpecPager == InitPagerOnly /\ [][NextPager]_vars

\* The consumer keeps pulling, so the iterator function keeps running; every
\* StreamedListObjects call, every Recv and every loop body returns.
FairPager ==
    /\ WF_vars(Iterate)
    /\ WF_vars(StartStream \/ StartStreamFails)
    /\ WF_vars(RecvResponse \/ RecvEOF \/ RecvError)
    /\ WF_vars(YieldReturns)

SpecPagerFair == InitPagerOnly /\ [][NextPager]_vars /\ FairPager

InitErrorsOnly == InitErrors /\ IdleToken /\ IdleBuilder /\ IdlePager /\ IdleRpc /\ IdleWs /\ IdleTs /\ IdleSz /\ IdleCt /\ IdleDc /\ IdleAr /\ IdleWc /\ IdleExtra

SpecErrors == InitErrorsOnly /\ [][NextErrors]_vars

InitRpcOnly == InitRpc /\ IdleToken /\ IdleBuilder /\ IdlePager /\ IdleErrors /\ IdleWs /\ IdleTs /\ IdleSz /\ IdleCt /\ IdleDc /\ IdleAr /\ IdleWc /\ IdleExtra

SpecRpc == InitRpcOnly /\ [][NextRpc]_vars

InitWsOnly == InitWs /\ IdleToken /\ IdleBuilder /\ IdlePager /\ IdleErrors /\ IdleRpc /\ IdleTs /\ IdleSz /\ IdleCt /\ IdleDc /\ IdleAr /\ IdleWc /\ IdleExtra

SpecWs == InitWsOnly /\ [][NextWs]_vars

InitTsOnly == InitTs /\ IdleToken /\ IdleBuilder /\ IdlePager /\ IdleErrors /\ IdleRpc /\ IdleWs /\ IdleSz /\ IdleCt /\ IdleDc /\ IdleAr /\ IdleWc /\ IdleExtra

SpecTs == InitTsOnly /\ [][NextTs]_vars


\* ------------------------------------------------------------------------
\* Claims about the token cache (checked under SpecToken)
\* ------------------------------------------------------------------------

\* Validity as the data model states it: a non-empty access token and
\* now + 300s strictly before expiresAt.
ValidAt(tok, t) == tok.AccessToken # "" /\ t + expirationWindow < tok.ExpiresAt

\* The call of p that is running overlaps no other call.
Sequential(p) == seq.p = p /\ Active(p)

\* p's call returns in this step.
Returns(p) == pc[p] # "idle" /\ pc'[p] = "idle"

\* C1: for one OAuth2ClientCredentials instance and any interleaving of
\* GetToken calls, forced or not, at most one token-endpoint request is in
\* flight at any moment.
C1_AtMostOneRefreshInFlight == Cardinality(inflight) <= 1

\* C1 witness: a request is in flight while another caller waits at the lock.
C1_Witness ==
    \E p, q \in Procs :
        /\ p # q
        /\ inflight = {p}
        /\ pc[q] = "lock89"
        /\ force[q]

\* C2 (as claimed): callers that all pass forceRefresh=false, start against
\* the empty cache while the clock stands still, and get the same token with
\* a 3600s lifetime from the endpoint, all return that token, and the
\* endpoint is called no more than once.
C2_OneRequestPerExpiredState ==
    (uniform /\ ticks = 0) =>
        /\ callCount <= 1
        /\ \A p \in Procs :
             result[p].err # "pending" =>
                 result[p].err = "nil" /\ result[p].tok.AccessToken = "TokA"

\* C3 (as claimed): when the refresh of a call fails, the call returns the
\* error after that one attempt and the cache is what it was before the call.
C3_FailureLeavesCache ==
    [][\A p \in Procs :
         (Sequential(p) /\ Returns(p) /\ pc[p] = "ret99" /\ ~resp[p].ok) =>
             /\ result'[p].err = "err"
             /\ callCount' = seq.count + 1
             /\ cachedToken' = seq.tok]_vars

\* C8: a GetToken(forceRefresh=false) that runs alone while the cached token
\* is valid (now + 300s < expiresAt) stays off the lock, issues no
\* token-endpoint request, leaves the cache unchanged and returns the cached
\* token.
C8_CacheReuse ==
    [][\A p \in Procs :
         (Sequential(p) /\ ~force[p] /\ ValidAt(seq.tok, now')) =>
             /\ pc'[p] \in {"valid132", "valid136", "copy86", "idle"}
             /\ callCount' = seq.count
             /\ cachedToken' = seq.tok
             /\ (pc'[p] = "idle" =>
                    result'[p] = [tok |-> seq.tok, err |-> "nil"])]_vars

\* C8 witness: after an earlier refresh and a clock advance, a lone
\* unforced call is copying out the still valid cached token.
C8_Witness ==
    \E p \in Procs :
        /\ Sequential(p) /\ ~force[p] /\ pc[p] = "copy86"
        /\ ValidAt(seq.tok, now)
        /\ seq.count = 1 /\ callCount = 1
        /\ ticks > 0

\* C9: a GetToken(forceRefresh=true) returns only after the token endpoint
\* answered a request of that call (exactly one when it runs alone), also
\* when the cached token was valid; on success the returned token and the
\* cache are the token built from that response.
C9_ForcedRefresh ==
    [][\A p \in Procs :
         (force[p] /\ Returns(p)) =>
             /\ pc[p] = "ret99"
             /\ resp[p] # NoAnswer
             /\ (Sequential(p) => callCount' = seq.count + 1)
             /\ (resp[p].ok =>
                    /\ result'[p].err = "nil"
                    /\ result'[p].tok.AccessToken = resp[p].token
                    /\ cachedToken' = result'[p].tok)]_vars

\* C9 witness: a lone forced call, started on a valid cached token, is about
\* to return a different token that the endpoint just issued.
C9_Witness ==
    \E p \in Procs :
        /\ Sequential(p) /\ force[p] /\ pc[p] = "ret99"
        /\ ValidAt(seq.tok, now)
        /\ resp[p].ok /\ resp[p].token # seq.tok.AccessToken

\* C10: the validity check of an unforced call that runs alone decides
\* "valid" exactly when the access token is non-empty and now + 300s is
\* strictly before expiresAt; a call that starts on an invalid token (empty,
\* expiresAt = now + 100s, expiresAt = now + 300s) returns only after a
\* refresh, having issued one token-endpoint request.
C10_ValidityWindow ==
    [][\A p \in Procs :
         (Sequential(p) /\ ~force[p]) =>
             /\ (pc[p] \in {"valid132", "valid136"} /\ pc'[p] = "lock89"
                    => ~ValidAt(cachedToken, now))
             /\ (pc[p] = "valid136" /\ pc'[p] = "copy86"
                    => ValidAt(cachedToken, now))
             /\ (Returns(p) /\ ~ValidAt(seq.tok, seq.at)
                    => pc[p] = "ret99" /\ callCount' = seq.count + 1)]_vars

\* C10 witness: a lone unforced call that started on a token expiring in
\* exactly 300s has refreshed.
C10_Witness ==
    \E p \in Procs :
        /\ Sequential(p) /\ ~force[p] /\ pc[p] = "ret99"
        /\ seq.tok.AccessToken # ""
        /\ seq.tok.ExpiresAt = seq.at + expirationWindow

\* C10 witness, second case: the token expired 100s from the call's start.
C10_Witness100 ==
    \E p \in Procs :
        /\ Sequential(p) /\ ~force[p] /\ pc[p] = "ret99"
        /\ seq.tok.AccessToken # ""
        /\ seq.tok.ExpiresAt = seq.at + 100

\* ------------------------------------------------------------------------
\* Claims about the client builder
\* ------------------------------------------------------------------------
\* Build() read an insecure transport together with per-RPC credentials that
\* require transport security, on a builder configured by the calls the
\* claim names alone (no dial or call option of the caller's).
InsecureWithSecureCreds ==
    /\ built.called
    /\ built.dialOptions = <<>> /\ built.callOptions = <<>>
    /\ built.transport = "insecure"
    /\ built.creds # NoCreds
    /\ RequireTransportSecurity(built.creds)

\* C4: whenever Build() is called on a builder whose transport credentials
\* are insecure (set by Insecure() or passed explicitly) and whose per-RPC
\* credentials require transport security, it returns an error and no
\* connection, whatever calls configured the builder.
C4_BuildRejectsInsecureWithSecureCreds ==
    InsecureWithSecureCreds =>
        (built.err /\ built.conn = NilConn /\ ~built.stub)

\* C17: Build() with an empty target returns an error and no connection,
\* and has neither called grpc.NewClient nor the stub constructor nor made a
\* token source, whatever else was configured.
C17_EmptyTargetFailsFast ==
    (built.called /\ built.target = "") =>
        /\ built.err
        /\ built.conn = NilConn
        /\ ~built.dialed
        /\ ~built.stub
        /\ ~built.tokenSource

\* Build() was called with an empty target on a configured builder.
C17_Witness ==
    /\ built.called
    /\ built.target = ""
    /\ built.err
    /\ \/ perRPCCredentials # NoCreds
       \/ extraDialOptions # <<>>
       \/ /\ oauth.enable
          /\ \E d \in DiscoveryOutcomes : ~NewTokenSourceFails(oauth, d)

\* The transport a configuration call selects.
SelectsInsecure(c) == c.op = "Insecure" \/ c.ch = "insecure"

\* C18: the transport Build() dials with, on a builder without dial or call
\* options of the caller's, is the one the last transport-selecting call
\* selected: insecure iff that call selected insecure, TLS otherwise (and
\* TLS when no such call was made).
C18_LastTransportCallWins ==
    (/\ built.called /\ built.dialed
     /\ built.dialOptions = <<>> /\ built.callOptions = <<>>) =>
        ((built.transport = "insecure") <=>
            (/\ built.calls # <<>>
             /\ SelectsInsecure(built.calls[Len(built.calls)])))

\* C19: the Close() calls on a client release its connection exactly once:
\* the first returns nil and releases it, later ones return nil or an error
\* and release nothing; on a client without connection Close returns nil;
\* no Close panics.
C19_CloseReleasesOnce ==
    client # NoClient =>
        /\ \A i \in 1..Len(closeLog) :
              closeLog[i] \in {"nil", "ErrClientConnClosing"}
        /\ client.conn # NilConn =>
              /\ released = (IF closeLog = <<>> THEN 0 ELSE 1)
              /\ closeLog # <<>> => closeLog[1] = "nil"
        /\ client.conn = NilConn =>
              /\ released = 0
              /\ \A i \in 1..Len(closeLog) : closeLog[i] = "nil"

\* ------------------------------------------------------------------------
\* Claims about ListWorkspaces
\* ------------------------------------------------------------------------
\* The streams that ended with io.EOF leaving a non-empty token behind.
EndedWithToken == {k \in 1..Len(endTokens) : endTokens[k] # ""}

\* C5: when no call fails and the consumer never stops, the sequence ends
\* exactly after the first stream whose tracked token is empty at
\* end-of-stream, and the RPC has then been called once plus once per stream
\* that ended with a non-empty token; until then every ended stream left a
\* token and the same count holds for the calls made or about to be made.
C5_CallsUntilEmptyToken ==
    /\ lwEnd = "end" =>
          /\ Len(endTokens) = Len(requests)
          /\ endTokens[Len(endTokens)] = ""
          /\ \A k \in 1..(Len(endTokens) - 1) : endTokens[k] # ""
          /\ Len(requests) = 1 + Cardinality(EndedWithToken)
    /\ (lwPc \in {"recv", "yield"} /\ lwEnd = "none") =>
          /\ \A k \in 1..Len(endTokens) : endTokens[k] # ""
          /\ Len(requests) = 1 + Cardinality(EndedWithToken)
    /\ (lwPc = "call" /\ Len(endTokens) > 0) =>
          /\ \A k \in 1..Len(endTokens) : endTokens[k] # ""
          /\ Len(requests) = Cardinality(EndedWithToken)

\* Three streams were read to their end, the last one leaving no token.
C5_Witness ==
    /\ lwEnd = "end"
    /\ Len(requests) = 3
    /\ Len(recvLog) >= 2

\* C6: the request of call k+1 carries, as pagination.continuationToken, the
\* token tracked at the end of stream k, and the first request carries the
\* caller's start token when that token is not empty.
C6_NextRequestCarriesTrackedToken ==
    /\ \A k \in 1..(Len(requests) - 1) :
          /\ k <= Len(endTokens)
          /\ requests[k + 1].Pagination # NilPagination
          /\ requests[k + 1].Pagination.ContinuationToken = endTokens[k]
    /\ (Len(requests) >= 1 /\ startToken # "") =>
          /\ requests[1].Pagination # NilPagination
          /\ requests[1].Pagination.ContinuationToken = startToken

\* A start token was given and a third call followed two streams that left
\* different tokens.
C6_Witness ==
    /\ startToken # ""
    /\ Len(requests) = 3
    /\ endTokens[1] # endTokens[2]

\* The responses of the yielded items, in the order they were yielded.
YieldedResponses ==
    LET idx == {i \in 1..Len(yielded) : yielded[i].err = "nil"}
        F[i \in 0..Len(yielded)] ==
            IF i = 0 THEN <<>>
            ELSE IF i \in idx THEN Append(F[i - 1], yielded[i].response)
            ELSE F[i - 1]
    IN F[Len(yielded)]

\* C7: the consumer is handed every response in the order the streams
\* produced them, none dropped and none twice, and no new call is made
\* before the stream of the previous one returned end-of-stream.
C7_InOrderPageByPage ==
    [][/\ YieldedResponses' = recvLog'
       /\ Len(requests') > Len(requests) =>
             /\ ~streamOpen
             /\ Len(endTokens) = Len(requests)]_vars

\* Responses of two pages were yielded.
C7_Witness ==
    /\ Len(requests) >= 2
    /\ Len(yielded) >= 3
    /\ YieldedResponses = recvLog
    /\ \A i \in 1..Len(yielded) : yielded[i].err = "nil"

\* The error items among the yielded items.
ErrorItems == {i \in 1..Len(yielded) : yielded[i].err # "nil"}

\* Nothing more is asked of the stub in this step.
NoStubCall == requests' = requests /\ recvCalls' = recvCalls

\* C11: when StreamedListObjects fails, on the first or on a later call, the
\* error is yielded as one item, the last of the sequence; no Recv is made
\* on that call and no call follows.
C11_StartFailureEndsSequence ==
    [][(lwEnd' = "startError") =>
          /\ lwPc' = "done"
          /\ yielded'[Len(yielded')] = ErrorItem("failed to start stream")
          /\ Cardinality(ErrorItems') = 1
          /\ recvCalls'[Len(requests')] = 0
          /\ Len(recvCalls') = Len(requests')
          /\ (lwEnd = "startError" => (NoStubCall /\ yielded' = yielded))]_vars

\* The call for a continuation page failed after responses were yielded.
C11_Witness ==
    /\ lwEnd = "startError"
    /\ Len(requests) >= 2
    /\ Len(yielded) >= 2
    /\ requests[Len(requests)].Pagination # NilPagination

\* C12: when Recv returns an error other than end-of-stream, the error is
\* yielded as the last item, every item before it is a response with a nil
\* error, and neither a Recv nor a call follows, even when the stream had
\* given a non-empty continuation token.
C12_RecvErrorEndsSequence ==
    [][(lwEnd' = "recvError") =>
          /\ lwPc' = "done"
          /\ yielded'[Len(yielded')]
                = ErrorItem("error receiving from stream")
          /\ \A i \in 1..(Len(yielded') - 1) :
                /\ yielded'[i].err = "nil"
                /\ yielded'[i].response # NilResponse
          /\ (lwEnd = "recvError" => (NoStubCall /\ yielded' = yielded))]_vars

\* Recv failed on a stream that had given a non-empty token.
C12_Witness ==
    /\ lwEnd = "recvError"
    /\ lastToken # ""
    /\ Len(yielded) >= 2

\* C13: once a yield has returned false, on a response or on an error item,
\* no Recv and no call is made; and none is made before the consumer starts
\* to iterate.
C13_NoWorkWithoutConsumer ==
    [][/\ consumerStopped => NoStubCall
       /\ lwPc' = "new" => (requests' = <<>> /\ recvCalls' = <<>>)]_vars

\* The consumer stopped on a response that carried a continuation token.
C13_Witness ==
    /\ consumerStopped
    /\ lwEnd = "stopped"
    /\ lwPc = "done"
    /\ yielded[Len(yielded)].response.Pagination # NilPagination
    /\ yielded[Len(yielded)].response.Pagination.ContinuationToken # ""

\* C14: after the context is cancelled no StreamedListObjects call is
\* started and no successful response is yielded.
C14_CancelStopsSequence ==
    [][(ctx = "cancelled") =>
          /\ requests' = requests
          /\ Len(yielded') > Len(yielded) =>
                yielded'[Len(yielded')].err # "nil"]_vars

\* C15: every request carries the workspace/rbac object type, the caller's
\* relation and subject, and pagination with a limit; the pagination
\* carries a continuation token iff the token of that call is not empty.
C15_EveryRequestHasLimit ==
    \A k \in 1..Len(requests) :
        LET tok == IF k = 1 THEN startToken ELSE endTokens[k - 1]
            pag == requests[k].Pagination
        IN /\ requests[k].ObjectType = WorkspaceType
           /\ requests[k].Relation = relation
           /\ requests[k].Subject = subject
           /\ pag # NilPagination
           /\ pag.Limit = 1000
           /\ tok # "" => pag.ContinuationToken = tok
           /\ tok = "" => "ContinuationToken" \notin DOMAIN pag

\* The token of the last response of a stream: empty when the stream gave no
\* response or the last one has no pagination.
LastResponseToken(log) ==
    IF log = <<>> THEN ""
    ELSE IF log[Len(log)].Pagination = NilPagination THEN ""
    ELSE log[Len(log)].Pagination.ContinuationToken

\* The current stream has returned end-of-stream and no call followed yet.
StreamEnded ==
    \/ lwEnd = "end"
    \/ (lwPc = "call" /\ Len(endTokens) >= 1)

\* C16: at end-of-stream the sequence goes on iff the last response of that
\* stream carried a non-empty token, and then with that token; tokens of
\* earlier responses do not count.
C16_LastResponseDecides ==
    StreamEnded =>
        /\ (lwEnd = "end") <=> (LastResponseToken(streamLog) = "")
        /\ lwPc = "call" => continuationToken = LastResponseToken(streamLog)


\* ------------------------------------------------------------------------
\* Claims about the error kinds (checked under SpecErrors)
\* ------------------------------------------------------------------------
Kinds == {"connection", "token", "tokenCache", "status", "httpClient",
          "resourceClose"}

\* The kinds whose predicate an error satisfies.
Satisfied(err) ==
    {k \in Kinds :
        \/ k = "connection" /\ IsConnectionError(err)
        \/ k = "token" /\ IsTokenError(err)
        \/ k = "tokenCache" /\ IsTokenCacheError(err)
        \/ k = "status" /\ IsStatusError(err)
        \/ k = "httpClient" /\ IsHTTPClientError(err)
        \/ k = "resourceClose" /\ IsResourceCloseError(err)}

\* C20: an error made by the constructor of kind K (with a non-nil cause
\* where the constructor takes one, whatever that cause prints or wraps)
\* is non-nil and satisfies the predicate of K and of no other kind, also
\* after layers above wrapped it with fmt.Errorf and %w; a plain error,
\* wrapped or not, satisfies no predicate; and a constructor that takes a
\* cause returns nil when the cause is nil.
C20_KindPredicatesAreExclusive ==
    /\ (madeBy \in Kinds /\ (madeBy \in WrapKinds => given # NilError))
            => (errv # NilError /\ Satisfied(errv) = {madeBy})
    /\ (madeBy = "none" /\ lastOp # <<>>)
            => (errv # NilError /\ Satisfied(errv) = {})
    /\ (madeBy \in WrapKinds /\ given = NilError) => errv = NilError

\* Witness of C20: a token error whose cause prints "connection failed" was
\* wrapped with context by a layer above, and is a token error only.
C20_Witness ==
    /\ madeBy = "token"
    /\ lastOp = <<"NewTokenError", "fmt.Errorf">>
    /\ given = errorsNew("cause2", "connection failed")
    /\ Satisfied(errv) = {"token"}

\* Following Unwrap from err reaches the error value c.
ReachedByUnwrap(err, c) ==
    \E i \in 1..Len(err) : SubSeq(err, i, Len(err)) = c

\* The sentinel of a kind whose constructor takes a cause.
SentinelOf(kind) ==
    CASE kind = "connection" -> ErrConnectionFailed
      [] kind = "token" -> ErrTokenRetrieval
      [] kind = "httpClient" -> ErrHTTPClientCreation
      [] kind = "resourceClose" -> ErrResourceClose

\* C21: an error wrapped with a kind (its constructor was given a non-nil
\* cause) keeps the cause reachable: following Unwrap from the result
\* reaches the sentinel of the kind and the cause value it was given.
C21_CauseReachableByUnwrap ==
    (madeBy \in WrapKinds /\ given # NilError /\ lastOp # <<>>
        /\ lastOp[Len(lastOp)] # "fmt.Errorf")
        => /\ ReachedByUnwrap(errv, SentinelOf(madeBy))
           /\ ReachedByUnwrap(errv, given)


\* ------------------------------------------------------------------------
\* Claims about the inventory service clients (checked under SpecRpc)
\* ------------------------------------------------------------------------
\* C22: when OAuth2 is configured on the client, every request that reaches
\* the inventory service carries a bearer token, also when the token could
\* not be had, and although the caller passed no call option by hand.
C22_EveryRequestCarriesToken ==
    rpcConfig.EnableOauth =>
        \A i \in 1..Len(sent) : sent[i].authorization = Bearer


\* ------------------------------------------------------------------------
\* Claims about fetchWorkspace (checked under SpecWs)
\* ------------------------------------------------------------------------
\* The server answered 200 with a decodable body holding one workspace.
ExactlyOneWorkspace ==
    /\ wsResponse # NoResponse
    /\ wsResponse.StatusCode = 200
    /\ wsResponse.Body.kind = "json"
    /\ Len(wsResponse.Body.data) = 1

\* C23: a fetch returns a workspace iff the server answered HTTP 200 with a
\* decodable body whose data array holds exactly one element, and then it
\* returns that element and no error; in every other case (another status,
\* an undecodable body, 0 or 2 and more elements, no answer) it returns an
\* error and no workspace.
C23_WorkspaceIffExactlyOne ==
    wsPc = "done" =>
        /\ (wsResult.ws # NilWorkspace) <=> ExactlyOneWorkspace
        /\ wsResult.ws # NilWorkspace =>
              /\ wsResult.ws = wsResponse.Body.data[1]
              /\ wsResult.err = "nil"
        /\ wsResult.ws = NilWorkspace => wsResult.err # "nil"

\* Witness of C23: the server answered 200 with two workspaces and the fetch
\* returned an error and no workspace.
C23_Witness ==
    /\ wsPc = "done"
    /\ wsResponse # NoResponse
    /\ wsResponse.StatusCode = 200
    /\ wsResponse.Body.kind = "json"
    /\ Len(wsResponse.Body.data) = 2
    /\ wsResult.ws = NilWorkspace
    /\ wsResult.err = "unexpected number of workspaces"

\* C24: the auth step comes before the network call.  When options.Auth is
\* set and its ConfigureRequest (reached once the request was built) fails,
\* the fetch returns that error and the
\* RBAC endpoint receives no request; every request the endpoint receives
\* is a GET of {base}/api/rbac/v2/workspaces/ with the type query
\* parameter, the x-rh-rbac-org-id header and, when Auth is set, the
\* authorization header ConfigureRequest put there.
C24_AuthBeforeNetwork ==
    /\ (/\ wsArgs.Auth = "fails"
        /\ wsRequest # NoRequest
        /\ wsPc \notin {"idle", "auth"}) =>
          /\ wsPc = "done"
          /\ served = <<>>
          /\ wsResult.err = "auth failed"
          /\ wsResult.ws = NilWorkspace
    /\ \A i \in 1..Len(served) :
          /\ served[i].method = "GET"
          /\ served[i].url = <<"http://rbac", "/api/rbac/v2/workspaces/">>
          /\ served[i].query.type = workspaceType
          /\ workspaceType \in {"root", "default"}
          /\ served[i].header.orgId = wsArgs.orgId
          /\ wsArgs.Auth = "sets header" =>
                served[i].header.authorization = "Bearer tok"
          /\ wsArgs.Auth = "nil" => served[i].header.authorization = ""

\* Witness of C24: ConfigureRequest failed and the fetch has returned.
C24_Witness ==
    /\ wsArgs.Auth = "fails"
    /\ wsRequest # NoRequest
    /\ wsPc = "done"
    /\ served = <<>>


\* ------------------------------------------------------------------------
\* More claims about the token cache (checked under SpecToken)
\* ------------------------------------------------------------------------
\* The calls that are running and have not sent their request yet.
BeforeRequest ==
    {p \in Procs : pc[p] \in {"valid132", "valid136", "copy86", "lock89",
                              "clear93", "call114"}}

\* C25: each GetToken call issues at most one token-endpoint request, so N
\* calls cause at most N requests, and at least one once a call has
\* returned on the cache that started empty; a call whose request the
\* endpoint answered with a token, or that needed none, returns no error.
C25_AtMostOneRequestPerCall ==
    /\ [](/\ callCount + Cardinality(BeforeRequest) <= started
          /\ (\E p \in Procs : result[p].err # "pending") => callCount >= 1)
    /\ [][\A p \in Procs :
            (Returns(p) /\ (resp[p] = NoAnswer \/ resp[p].ok)) =>
                result'[p].err = "nil"]_vars

\* Witness of C25: two concurrent calls on the empty cache both sent a
\* request and both returned without error.
C25_Witness ==
    /\ started = NumProcs
    /\ callCount = NumProcs
    /\ \A p \in Procs : pc[p] = "idle" /\ result[p].err = "nil"

\* C26: on a successful refresh the expiresAt that is stored is the time of
\* the refresh plus the expires_in of the response, where an expires_in of
\* zero (or an absent one) counts as 3600 seconds.
C26_ExpiresAtFromExpiresIn ==
    /\ [][\A p \in Procs :
            (pc[p] = "wait114" /\ pc'[p] = "store97" /\ resp'[p].ok) =>
                val'[p].tok =
                    [AccessToken |-> resp'[p].token,
                     ExpiresAt |-> now + (IF resp'[p].expiresIn = 0 THEN 3600
                                          ELSE resp'[p].expiresIn)]]_vars
    /\ [](\A p \in Procs :
            (pc[p] = "ret99" /\ resp[p].ok) => cachedToken = val[p].tok)

\* Witness of C26: a response without expires_in was stored after the clock
\* had advanced, with the default lifetime counted from the refresh.
C26_Witness ==
    \E p \in Procs :
        /\ pc[p] = "ret99"
        /\ resp[p].ok /\ resp[p].expiresIn = 0
        /\ ticks > 0
        /\ cachedToken.ExpiresAt = now + defaultExpiresIn

\* C29: an unforced GetToken that finds the cached token valid never takes
\* the refresh lock and never waits for it: each of its steps can be taken
\* whoever holds the lock, also during a refresh that is in flight.
C29_FastPathTakesNoLock ==
    \A p \in Procs :
        /\ pc[p] \in {"valid132", "valid136", "copy86"} => tokenMutex # p
        /\ pc[p] = "valid132" => ENABLED ReadAccessToken(p)
        /\ pc[p] = "valid136" => ENABLED ReadExpiresAt(p)
        /\ pc[p] = "copy86" => ENABLED CopyCached(p)

\* Witness of C29: a caller found the cached token valid and is returning
\* it while another caller holds the lock with its request in flight.
C29_Witness ==
    \E p, q \in Procs :
        /\ p # q
        /\ pc[p] = "copy86"
        /\ tokenMutex = q
        /\ q \in inflight
        /\ cachedToken.AccessToken # ""

\* C30 (as claimed): the token endpoint answers with a non-empty access
\* token whenever it answers with one, and every GetToken call that returns
\* a nil error returns a non-empty access token.
C30_NilErrorMeansToken ==
    \A p \in Procs :
        result[p].err = "nil" => result[p].tok.AccessToken # ""


\* ------------------------------------------------------------------------
\* Claims about NewTokenSource (checked under SpecTs)
\* ------------------------------------------------------------------------
\* NewTokenSource failed with a token error whose code is InvalidArgument.
InvalidArgumentTokenError ==
    /\ ~tsResult.source
    /\ tsResult.err # NilError
    /\ IsTokenError(tsResult.err)
    /\ tsResult.err[1].Code = "InvalidArgument"

\* C27: NewTokenSource resolves the token endpoint in a fixed order.  A
\* missing client id or secret fails with an InvalidArgument token error
\* and no network request; otherwise a configured token URL is used and no
\* discovery request is made, whatever the issuer URL; otherwise a
\* configured issuer URL starts discovery (one request, or none when the
\* request cannot be built), whose failure fails NewTokenSource and whose
\* token endpoint is used; with neither URL it fails.
C27_TokenEndpointResolutionOrder ==
    /\ Len(discoveries) <= 1
    /\ (tsCfg.ClientID = "" \/ tsCfg.ClientSecret = "" \/ tsCfg.TokenURL # <<>>
            \/ tsCfg.IssuerURL = <<>>) => discoveries = <<>>
    /\ \A i \in 1..Len(discoveries) :
          discoveries[i] = <<"https://auth.example.com",
                             "/.well-known/openid-configuration">>
    /\ tsPc = "done" =>
          IF tsCfg.ClientID = "" \/ tsCfg.ClientSecret = ""
          THEN InvalidArgumentTokenError
          ELSE IF tsCfg.TokenURL # <<>>
          THEN /\ tsResult.source /\ tsResult.err = NilError
               /\ tsResult.TokenURL = tsCfg.TokenURL
          ELSE IF tsCfg.IssuerURL # <<>>
          THEN /\ Len(discoveries) = IF discoveryRequestFails(tsCfg.IssuerURL)
                                     THEN 0 ELSE 1
               /\ discoveries = <<>> => InvalidArgumentTokenError
               /\ \/ InvalidArgumentTokenError
                  \/ /\ tsResult.source /\ tsResult.err = NilError
                     /\ tsResult.TokenURL = <<"https://idp.example.com/token">>
          ELSE InvalidArgumentTokenError

\* Witness of C27: with both a token URL and an issuer URL configured the
\* token source was made from the token URL without a discovery request.
C27_Witness ==
    /\ tsPc = "done"
    /\ tsCfg.TokenURL # <<>>
    /\ tsCfg.IssuerURL # <<>>
    /\ tsResult.source
    /\ discoveries = <<>>

\* ------------------------------------------------------------------------
\* Message sizes: NewGRPCConfig, NewCompatibilityConfig, NewClientBuilder,
\* NewClientBuilderFromConfig, the size options and Build
\* ------------------------------------------------------------------------
MaxOptions == 2

\* 4 * 1024 * 1024
DefaultMessageSize == 4194304

\* The sizes the callers pass to the size options.
Sizes == {0, 1024, 8388608}

\* The packages that define NewGRPCConfig.
ConfigPackages == {"pkg/kessel/config", "kessel/config"}

SizeOptionNames == {"WithGRPCMaxReceiveMessageSize", "WithGRPCMaxSendMessageSize"}

SizeOptions == [name : SizeOptionNames, size : Sizes]

\* The endpoints the callers pass; the part "<DEL>" stands for a control
\* character, with which the target does not parse and grpc.NewClient fails.
SzEndpoints == {<<"localhost:9000">>, <<"localhost:9000", "<DEL>">>}

EndpointOptions == [name : {"WithGRPCEndpoint"}, endpoint : SzEndpoints]

\* options ...GRPCClientOption
SizeOptionLists == SeqsUpTo(SizeOptions \cup EndpointOptions, MaxOptions)

\* The dial options the callers pass to WithDialOption: default call options
\* that carry a message size, and one that carries none.
SzDialOptions ==
    {[name |-> "WithDefaultCallOptions",
      call |-> <<[name |-> "MaxCallRecvMsgSize", size |-> 1024]>>],
     [name |-> "WithDefaultCallOptions",
      call |-> <<[name |-> "MaxCallSendMsgSize", size |-> 1024]>>],
     [name |-> "WithUserAgent", call |-> <<>>]}

NoConfig == [Endpoint |-> <<>>, MaxReceiveMessageSize |-> -1,
             MaxSendMessageSize |-> -1]
NoBuilder == [endpoint |-> <<>>, maxReceiveMessageSize |-> -1,
              maxSendMessageSize |-> -1, dialOptions |-> <<>>]
NoConn == [err |-> FALSE, MaxCallRecvMsgSize |-> -1, MaxCallSendMsgSize |-> -1]
NoneCalled == [receive |-> <<>>, send |-> <<>>]

\* The struct literal of NewGRPCConfig: the package under pkg/ leaves the two
\* sizes at the zero value of int, its two lines being commented out.
GRPCConfigLiteral(pkgv) ==
    IF pkgv = "pkg/kessel/config"
    THEN [Endpoint |-> <<>>, MaxReceiveMessageSize |-> 0,
          MaxSendMessageSize |-> 0]
    ELSE [Endpoint |-> <<>>, MaxReceiveMessageSize |-> DefaultMessageSize,
          MaxSendMessageSize |-> DefaultMessageSize]

\* The struct literal of NewCompatibilityConfig.
CompatibilityConfigLiteral ==
    [Endpoint |-> <<>>, MaxReceiveMessageSize |-> DefaultMessageSize,
     MaxSendMessageSize |-> DefaultMessageSize]

WithGRPCEndpoint(c, endpoint) ==
    [c EXCEPT !.Endpoint = endpoint]

WithGRPCMaxReceiveMessageSize(c, size) ==
    [c EXCEPT !.MaxReceiveMessageSize = size]

WithGRPCMaxSendMessageSize(c, size) ==
    [c EXCEPT !.MaxSendMessageSize = size]

\* for _, option := range options { option(config) }
RECURSIVE ApplyOptions(_, _)
ApplyOptions(c, options) ==
    IF options = <<>> THEN c
    ELSE ApplyOptions(
           IF Head(options).name = "WithGRPCEndpoint"
           THEN WithGRPCEndpoint(c, Head(options).endpoint)
           ELSE IF Head(options).name = "WithGRPCMaxReceiveMessageSize"
           THEN WithGRPCMaxReceiveMessageSize(c, Head(options).size)
           ELSE WithGRPCMaxSendMessageSize(c, Head(options).size),
           Tail(options))

\* History: the size each option of the list named last.
RECURSIVE CalledBy(_, _)
CalledBy(called, options) ==
    IF options = <<>> THEN called
    ELSE CalledBy(
           IF Head(options).name = "WithGRPCEndpoint"
           THEN called
           ELSE IF Head(options).name = "WithGRPCMaxReceiveMessageSize"
           THEN [called EXCEPT !.receive = <<Head(options).size>>]
           ELSE [called EXCEPT !.send = <<Head(options).size>>],
           Tail(options))

\* grpc applies the default call options in order: the last one that names a
\* size sets it.
RECURSIVE LastSize(_, _)
LastSize(callOptions, name) ==
    IF callOptions = <<>> THEN -1
    ELSE IF callOptions[Len(callOptions)].name = name
    THEN callOptions[Len(callOptions)].size
    ELSE LastSize(SubSeq(callOptions, 1, Len(callOptions) - 1), name)

\* grpc.NewClient fails for a target that does not parse.
NewClientFails(endpoint) == ParseFails(endpoint)

InitSz ==
    /\ szPc = "start"
    /\ szPath = "none"
    /\ szConfig = NoConfig
    /\ szBuilder = NoBuilder
    /\ szCalled = NoneCalled
    /\ szConn = NoConn

\* config.NewGRPCConfig(options...)
NewGRPCConfig ==
    /\ szPc = "start"
    /\ \E pkgv \in ConfigPackages, options \in SizeOptionLists :
         /\ szPath' = pkgv
         /\ szConfig' = ApplyOptions(GRPCConfigLiteral(pkgv), options)
         /\ szCalled' = CalledBy(szCalled, options)
    /\ szPc' = "config"
    /\ UNCHANGED <<szBuilder, szConn>>
    /\ UNCHANGED nonSzVars

\* config.NewCompatibilityConfig(options...)
NewCompatibilityConfig ==
    /\ szPc = "start"
    /\ \E options \in SizeOptionLists :
         /\ szConfig' = ApplyOptions(CompatibilityConfigLiteral, options)
         /\ szCalled' = CalledBy(szCalled, options)
    /\ szPath' = "NewCompatibilityConfig"
    /\ szPc' = "config"
    /\ UNCHANGED <<szBuilder, szConn>>
    /\ UNCHANGED nonSzVars

\* grpc.NewClientBuilder(endpoint)
NewClientBuilder ==
    /\ szPc = "start"
    /\ szPath' = "NewClientBuilder"
    /\ \E endpoint \in SzEndpoints :
         szBuilder' = [endpoint |-> endpoint,
                       maxReceiveMessageSize |-> DefaultMessageSize,
                       maxSendMessageSize |-> DefaultMessageSize,
                       dialOptions |-> <<>>]
    /\ szPc' = "builder"
    /\ UNCHANGED <<szConfig, szCalled, szConn>>
    /\ UNCHANGED nonSzVars

\* grpc.NewClientBuilderFromConfig(cfg)
NewClientBuilderFromConfig ==
    /\ szPc = "config"
    /\ szBuilder' = [endpoint |-> szConfig.Endpoint,
                     maxReceiveMessageSize |-> szConfig.MaxReceiveMessageSize,
                     maxSendMessageSize |-> szConfig.MaxSendMessageSize,
                     dialOptions |-> <<>>]
    /\ szPc' = "builder"
    /\ UNCHANGED <<szPath, szConfig, szCalled, szConn>>
    /\ UNCHANGED nonSzVars

\* b.WithMaxReceiveMessageSize(size); the builder stays usable after Build.
WithMaxReceiveMessageSize ==
    /\ szPc \in {"builder", "built"}
    /\ \E size \in Sizes :
         /\ szBuilder' = [szBuilder EXCEPT !.maxReceiveMessageSize = size]
         /\ szCalled' = [szCalled EXCEPT !.receive = <<size>>]
    /\ szPc' = "builder"
    /\ UNCHANGED <<szPath, szConfig, szConn>>
    /\ UNCHANGED nonSzVars

\* b.WithMaxSendMessageSize(size)
WithMaxSendMessageSize ==
    /\ szPc \in {"builder", "built"}
    /\ \E size \in Sizes :
         /\ szBuilder' = [szBuilder EXCEPT !.maxSendMessageSize = size]
         /\ szCalled' = [szCalled EXCEPT !.send = <<size>>]
    /\ szPc' = "builder"
    /\ UNCHANGED <<szPath, szConfig, szConn>>
    /\ UNCHANGED nonSzVars

\* b.WithDialOption(opt): b.dialOptions = append(b.dialOptions, opt)
SzWithDialOption ==
    /\ szPc \in {"builder", "built"}
    /\ Len(szBuilder.dialOptions) < MaxOptions
    /\ \E opt \in SzDialOptions :
         szBuilder' = [szBuilder EXCEPT !.dialOptions = Append(@, opt)]
    /\ szPc' = "builder"
    /\ UNCHANGED <<szPath, szConfig, szCalled, szConn>>
    /\ UNCHANGED nonSzVars

\* b.Build(): the builder's own WithDefaultCallOptions(MaxCallRecvMsgSize,
\* MaxCallSendMsgSize) comes first and the caller's dial options after it, so
\* a size a caller's dial option carries is the one in force; the error of
\* grpc.NewClient is passed on.  szPc is "built" while the builder is as the
\* last Build saw it.
BuildConn ==
    /\ szPc \in {"builder", "built"}
    /\ LET callOptions ==
               <<[name |-> "MaxCallRecvMsgSize",
                  size |-> szBuilder.maxReceiveMessageSize],
                 [name |-> "MaxCallSendMsgSize",
                  size |-> szBuilder.maxSendMessageSize]>>
               \o CallOptionsOf(szBuilder.dialOptions)
       IN  szConn' =
             IF NewClientFails(szBuilder.endpoint)
             THEN [err |-> TRUE, MaxCallRecvMsgSize |-> -1,
                   MaxCallSendMsgSize |-> -1]
             ELSE [err |-> FALSE,
                   MaxCallRecvMsgSize |-> LastSize(callOptions, "MaxCallRecvMsgSize"),
                   MaxCallSendMsgSize |-> LastSize(callOptions, "MaxCallSendMsgSize")]
    /\ szPc' = "built"
    /\ UNCHANGED <<szPath, szConfig, szBuilder, szCalled>>
    /\ UNCHANGED nonSzVars

NextSz ==
    \/ NewGRPCConfig
    \/ NewCompatibilityConfig
    \/ NewClientBuilder
    \/ NewClientBuilderFromConfig
    \/ WithMaxReceiveMessageSize
    \/ WithMaxSendMessageSize
    \/ SzWithDialOption
    \/ BuildConn

InitSzOnly == InitSz /\ IdleToken /\ IdleBuilder /\ IdlePager /\ IdleErrors /\ IdleRpc /\ IdleWs /\ IdleTs /\ IdleCt /\ IdleDc /\ IdleAr /\ IdleWc /\ IdleExtra

SpecSz == InitSzOnly /\ [][NextSz]_vars

\* The size a connection is to have: the one the last option naming it gave,
\* and the default when no option named it.
ExpectedSize(called) ==
    IF called = <<>> THEN DefaultMessageSize ELSE called[1]

\* C28: a connection built without a size-carrying dial option of the
\* caller's has maximum receive and send message sizes of 4194304 bytes each
\* unless a size option named that size, on every construction path; an
\* option replaces only the size it names.
C28_DefaultMessageSizes ==
    (/\ szPc = "built"
     /\ ~szConn.err
     /\ CallOptionsOf(szBuilder.dialOptions) = <<>>) =>
        /\ szConn.MaxCallRecvMsgSize = ExpectedSize(szCalled.receive)
        /\ szConn.MaxCallSendMsgSize = ExpectedSize(szCalled.send)

\* C31: under fair scheduling, and with every token-endpoint request
\* returning, every GetToken call that was started returns: the lock is
\* released on the success path and on every failure path.
C31_EveryGetTokenReturns ==
    \A p \in Procs : (pc[p] # "idle") ~> (pc[p] = "idle")

\* A caller waits for the lock while the holder's refresh has failed.
C31_Witness ==
    \E p, q \in Procs :
        /\ pc[p] = "lock89"
        /\ tokenMutex = q
        /\ pc[q] = "ret99"
        /\ val[q].err = "err"

\* C32: in every state of the ClientBuilder reached by Insecure,
\* Authenticated, Unauthenticated and OAuth2ClientAuthenticated calls, a set
\* insecure flag means that no per-RPC credentials are configured, and
\* credentials made by OAuth2ClientAuthenticated require transport security.
C32_InsecureMeansNoCredentials ==
    bver \in {"internal"} \cup InvSources =>
        /\ insecure => perRPCCredentials = NoCreds
        /\ perRPCCredentials.kind = "oauth2" =>
               RequireTransportSecurity(perRPCCredentials)

\* ------------------------------------------------------------------------
\* pkg/kessel/client: NewGRPCClient, NewHTTPClient, Close
\* ------------------------------------------------------------------------
CtClientIDs == {"", "client-id"}
CtClientSecrets == {"", "secret"}
CtTokenURLs == {"", "https://auth.example.com/token",
                "https://sso.example.com/token"}

CtConfigs ==
    [EnableOauth : BOOLEAN, ClientID : CtClientIDs,
     ClientSecret : CtClientSecrets, TokenURL : CtTokenURLs]

NotConstructed == [called |-> FALSE]

InitCt ==
    /\ ctPc = "idle"
    /\ ctCfg \in CtConfigs
    /\ ctConn = "none"
    /\ ctCloses = <<>>
    /\ ctResult = NotConstructed

\* auth.NewTokenSource(cfg) of pkg/kessel/auth fails on an incomplete
\* configuration.
CtTokenSourceFails(cfg) ==
    cfg.ClientID = "" \/ cfg.ClientSecret = "" \/ cfg.TokenURL = ""

CtReturns(kind, e, made, tokenSource) ==
    /\ ctResult' = [called |-> TRUE, kind |-> kind, err |-> e,
                    client |-> made, tokenSource |-> tokenSource]
    /\ ctPc' = "returned"

\* NewGRPCClient(ctx, cfg, builder): builder.Build(), then the token source;
\* a token-source failure closes the connection before returning.
NewGRPCClient ==
    /\ ctPc = "idle"
    /\ \E buildFails \in BOOLEAN :
         IF buildFails
         THEN /\ CtReturns("grpc", "connection", FALSE, FALSE)
              /\ UNCHANGED <<ctConn, ctCloses>>
         ELSE IF ctCfg.EnableOauth /\ CtTokenSourceFails(ctCfg)
              THEN /\ ctConn' = "closed"
                   /\ ctCloses' = Append(ctCloses, "NewGRPCClient")
                   /\ CtReturns("grpc", "token", FALSE, FALSE)
              ELSE /\ ctConn' = "open"
                   /\ UNCHANGED ctCloses
                   /\ CtReturns("grpc", "nil", TRUE, ctCfg.EnableOauth)
    /\ UNCHANGED ctCfg
    /\ UNCHANGED nonCtVars

\* NewHTTPClient(ctx, cfg, builder): builder.Build(ctx), then the token
\* source; a token-source failure returns at once.
NewHTTPClient ==
    /\ ctPc = "idle"
    /\ \E buildFails \in BOOLEAN :
         IF buildFails
         THEN /\ CtReturns("http", "httpclient", FALSE, FALSE)
              /\ UNCHANGED <<ctConn, ctCloses>>
         ELSE /\ ctConn' = "open"
              /\ UNCHANGED ctCloses
              /\ IF ctCfg.EnableOauth /\ CtTokenSourceFails(ctCfg)
                 THEN CtReturns("http", "token", FALSE, FALSE)
                 ELSE CtReturns("http", "nil", TRUE, ctCfg.EnableOauth)
    /\ UNCHANGED ctCfg
    /\ UNCHANGED nonCtVars

\* c.Close() on the client a constructor returned.
ClientClose ==
    /\ ctPc = "returned"
    /\ ctResult.client
    /\ ctConn' = "closed"
    /\ ctCloses' = Append(ctCloses, "caller")
    /\ ctPc' = "closed"
    /\ UNCHANGED <<ctCfg, ctResult>>
    /\ UNCHANGED nonCtVars

NextCt ==
    \/ NewGRPCClient
    \/ NewHTTPClient
    \/ ClientClose

InitCtOnly == InitCt /\ IdleToken /\ IdleBuilder /\ IdlePager /\ IdleErrors /\ IdleRpc /\ IdleWs /\ IdleTs /\ IdleSz /\ IdleDc /\ IdleAr /\ IdleWc /\ IdleExtra

SpecCt == InitCtOnly /\ [][NextCt]_vars

\* C33: whenever NewGRPCClient or NewHTTPClient has returned an error, the
\* connection or HTTP client built so far is not left open.
C33_NoOpenResourceOnFailure ==
    (ctResult.called /\ ctResult.err # "nil") => ctConn # "open"

\* ------------------------------------------------------------------------
\* Oauth2.DiscoverTokenEndpoint of kessel/config and of pkg/kessel/config
\* ------------------------------------------------------------------------
NoOutcome == [transport |-> FALSE]

\* The well-known path each package appends to the trimmed issuer URL.
wellKnownPath(pkgv) ==
    IF pkgv = "pkg/kessel/config"
    THEN "/.well-known/openid_configuration"
    ELSE "/.well-known/openid-configuration"

InitDc ==
    /\ dcPkg \in ConfigPackages
    /\ dcCfg \in [IssuerURL : TsIssuerURLs, TokenURL : TsTokenURLs]
    /\ dcPc = "idle"
    /\ dcRequests = <<>>
    /\ dcBefore = <<>>
    /\ dcOutcome = NoOutcome
    /\ dcResult = NotCalled

DiscoverReturns(failed) == [called |-> TRUE, err |-> failed]

\* DiscoverTokenEndpoint up to its first return or to the request it sends.
DiscoverTokenEndpoint ==
    /\ dcPc = "idle"
    /\ dcBefore' = dcCfg.TokenURL
    /\ IF dcCfg.IssuerURL = <<>>
       THEN /\ dcResult' = DiscoverReturns(TRUE)
            /\ dcPc' = "done"
            /\ UNCHANGED dcRequests
       ELSE IF ParseFails(dcCfg.IssuerURL)
       THEN \* http.NewRequestWithContext fails: nothing is sent
            /\ dcResult' = DiscoverReturns(TRUE)
            /\ dcPc' = "done"
            /\ UNCHANGED dcRequests
       ELSE /\ dcRequests' = Append(dcRequests,
                   TrimSuffix(dcCfg.IssuerURL) \o <<wellKnownPath(dcPkg)>>)
            /\ dcPc' = "requesting"
            /\ UNCHANGED dcResult
    /\ UNCHANGED <<dcPkg, dcCfg, dcOutcome>>
    /\ UNCHANGED nonDcVars

\* client.Do returns: the status, the document and its token_endpoint are
\* checked, and only then is o.TokenURL written.
DiscoveryAnswered ==
    /\ dcPc = "requesting"
    /\ \E o \in DiscoveryOutcomes :
         LET d == discoverTokenEndpoint(o)
         IN  /\ dcOutcome' = o
             /\ dcResult' = DiscoverReturns(d.err)
             /\ dcCfg' = IF d.err THEN dcCfg
                          ELSE [dcCfg EXCEPT !.TokenURL = d.url]
    /\ dcPc' = "done"
    /\ UNCHANGED <<dcPkg, dcRequests, dcBefore>>
    /\ UNCHANGED nonDcVars

NextDc ==
    \/ DiscoverTokenEndpoint
    \/ DiscoveryAnswered

InitDcOnly == InitDc /\ IdleToken /\ IdleBuilder /\ IdlePager /\ IdleErrors /\ IdleRpc /\ IdleWs /\ IdleTs /\ IdleSz /\ IdleCt /\ IdleAr /\ IdleWc /\ IdleExtra

SpecDc == InitDcOnly /\ [][NextDc]_vars

\* The request ended in one of the failures the claim lists.
ListedDiscoveryFailure ==
    \/ ~dcOutcome.transport
    \/ dcOutcome.StatusCode # 200
    \/ dcOutcome.doc.kind # "json"
    \/ dcOutcome.doc.TokenEndpoint = <<>>

\* C34: DiscoverTokenEndpoint fails on an empty issuer URL without a
\* request, and on a failed request, a non-200 status, an undecodable body
\* or a missing token_endpoint; a failure leaves TokenURL unchanged; success
\* sets it to the document's token_endpoint, fetched from the trimmed issuer
\* URL plus /.well-known/openid-configuration.
C34_DiscoverTokenEndpoint ==
    dcResult.called =>
        /\ dcCfg.IssuerURL = <<>> => (dcResult.err /\ dcRequests = <<>>)
        /\ (dcCfg.IssuerURL # <<>> /\ ListedDiscoveryFailure) => dcResult.err
        /\ dcResult.err => dcCfg.TokenURL = dcBefore
        /\ ~dcResult.err =>
              /\ dcCfg.TokenURL = dcOutcome.doc.TokenEndpoint
              /\ dcRequests =
                    << TrimSuffix(dcCfg.IssuerURL) \o
                       <<"/.well-known/openid-configuration">> >>

\* ------------------------------------------------------------------------
\* kessel/rbac/v2/auth.go: oauth2Auth.ConfigureRequest
\* ------------------------------------------------------------------------
MaxRequests == 3

\* The headers a request may come with: with or without an authorization
\* header of its own.
RequestHeaders ==
    [authorization : {<<>>, <<"Basic ", "old">>}, orgId : {"", "org123"}]

\* The time at which this caller runs.
arNow == 1

InitAr ==
    /\ arPc = "idle"
    /\ arCached = EmptyToken
    /\ arHeader \in RequestHeaders
    /\ arBefore = arHeader
    /\ arToken = NoResult
    /\ arResult = "none"
    /\ arCalls = 0

\* ConfigureRequest is called with a request and calls GetToken (line 27).
oauth2AuthConfigureRequest ==
    /\ arPc \in {"idle", "done"}
    /\ arCalls < MaxRequests
    /\ arCalls' = arCalls + 1
    /\ \E h \in RequestHeaders :
         /\ arHeader' = h
         /\ arBefore' = h
    /\ arToken' = NoResult
    /\ arResult' = "none"
    /\ arPc' = "getToken"
    /\ UNCHANGED arCached
    /\ UNCHANGED nonArVars

\* What GetToken returns to a lone caller, and the cache it leaves: the
\* cached token while it is valid, else what refreshToken made of answer a.
GetTokenAlone(cached, a, t) ==
    IF isTokenValid(cached, t)
    THEN [tok |-> cached, err |-> "nil"]
    ELSE refreshToken(a, t)

\* A ConfigureRequest that sets the header before it looks at the error.
oauth2AuthSetsHeaderFirst ==
    /\ arPc = "getToken"
    /\ \E a \in Answers :
         LET r == GetTokenAlone(arCached, a, arNow)
         IN  /\ arToken' = r
             /\ arCached' = r.tok
             /\ arHeader' = [arHeader EXCEPT
                    !.authorization = <<"Bearer ", r.tok.AccessToken>>]
             /\ arResult' = r.err
    /\ arPc' = "done"
    /\ UNCHANGED <<arBefore, arCalls>>
    /\ UNCHANGED nonArVars

\* GetToken returns (lines 31-36): an error is handed on, else the
\* authorization header is set.
oauth2AuthGetTokenReturns ==
    /\ arPc = "getToken"
    /\ \E a \in Answers :
         LET r == GetTokenAlone(arCached, a, arNow)
         IN  /\ arToken' = r
             /\ arCached' = r.tok
             /\ IF r.err # "nil"
                THEN /\ arResult' = r.err
                     /\ UNCHANGED arHeader
                ELSE /\ arHeader' = [arHeader EXCEPT
                           !.authorization = <<"Bearer ", r.tok.AccessToken>>]
                     /\ arResult' = "nil"
    /\ arPc' = "done"
    /\ UNCHANGED <<arBefore, arCalls>>
    /\ UNCHANGED nonArVars

NextAr ==
    \/ oauth2AuthConfigureRequest
    \/ oauth2AuthGetTokenReturns

InitArOnly == InitAr /\ IdleToken /\ IdleBuilder /\ IdlePager /\ IdleErrors /\ IdleRpc /\ IdleWs /\ IdleTs /\ IdleSz /\ IdleCt /\ IdleDc /\ IdleWc /\ IdleExtra

SpecAr == InitArOnly /\ [][NextAr]_vars

\* C35: when GetToken succeeds, ConfigureRequest sets the authorization
\* header to "Bearer " followed by the access token GetToken returned and
\* returns nil; when GetToken fails it returns that error and the request's
\* headers are as they came.
C35_BearerHeaderOrUntouched ==
    arPc = "done" =>
        /\ arResult = arToken.err
        /\ arToken.err = "nil" =>
              /\ arHeader.authorization = <<"Bearer ", arToken.tok.AccessToken>>
              /\ arHeader.orgId = arBefore.orgId
        /\ arToken.err # "nil" => arHeader = arBefore

\* A failed GetToken on a request that came with its own authorization
\* header, after an earlier call has set a bearer header.
C35_Witness ==
    /\ arPc = "done"
    /\ arCalls = 2
    /\ arToken.err = "err"
    /\ arBefore.authorization # <<>>

\* The backend's chain of pages is finite: a stream ends with an empty
\* continuation token, or an error occurs.
FiniteChain ==
    <>(\/ lwEnd \in {"startError", "recvError"}
       \/ \E i \in 1..Len(endTokens) : endTokens[i] = "")

\* The sequence ends in this step.
SequenceEnds == lwPc # "done" /\ lwPc' = "done"

\* C36: with a finite chain of pages, every call and Recv returning and the
\* consumer pulling on, the sequence reaches its end; and the pager ends the
\* sequence only on an error, on the consumer's stop or on a stream that
\* ended with an empty token, however many streams came before.
C36_ConsumerReachesEnd ==
    /\ FiniteChain => <>(lwPc = "done")
    /\ [][SequenceEnds =>
            \/ lwEnd' \in {"startError", "recvError", "stopped"}
            \/ lwEnd' = "end" /\ lastToken = ""]_vars

\* The sequence has ended after the last stream the bound allows, each
\* earlier stream having ended with a non-empty token.
C36_Witness ==
    /\ lwPc = "done"
    /\ lwEnd = "end"
    /\ Len(requests) = MaxStreams
    /\ Len(endTokens) = MaxStreams

\* C37: a fetch whose context was cancelled before or during the HTTP call
\* returns an error and no workspace, with or without an Auth option.
C37_CancelledFetchFails ==
    (wsResult.called /\ wsCtx = "cancelled") =>
        (wsResult.err # "nil" /\ wsResult.ws = NilWorkspace)

====
